---------------------------- MODULE Spec2Model ----------------------------
(***************************************************************************)
(* Candy Tempest cluster-pays slot engine: the game state machine          *)
(* (src/src/engine/stateMachine.ts), the grid evaluator and the game       *)
(* engine coordinator (src/src/engine/evaluator.ts).                       *)
(*                                                                         *)
(* Specifications:                                                         *)
(*   SpecSM    the GameStateMachine class driven directly by processEvent; *)
(*   Spec      a GameEngine instance driven through its public methods,    *)
(*             its async spin() coroutines suspended at their awaits;      *)
(*   SpecEval  a GameEvaluator holding any grid, driven by evaluateWin;    *)
(*   SpecRNG   a SeededRNG instance that is drawn from and re-seeded, and  *)
(*             a fresh instance constructed with the same seed;            *)
(*   SpecEngines  two GameEngine instances drawing from the module's       *)
(*             global generator, each spin() awaited before the next call; *)
(*   SpecQuery the state machine's shouldContinueAutoSpin() on any state   *)
(*             data;                                                       *)
(*   SpecAlias a host that keeps the state-data objects it is handed and   *)
(*             writes to them;                                             *)
(*   SpecAuto  a GameEngine instance with auto-spin: processAutoSpin()     *)
(*             loops beside the spin() coroutines, started and stopped by  *)
(*             the host;                                                   *)
(*   SpecSession  SpecAuto with setBet(), addBalance() and reset() calls   *)
(*             of the host, from an initial balance that may be 0;         *)
(*   SpecSim   simulateRTP() on the module's global generator, beside the  *)
(*             spin() of a fresh engine started from the same generator    *)
(*             state.                                                      *)
(*                                                                         *)
(* Indices are 1-based here (col 1..Columns, row 1..Rows) where the source *)
(* is 0-based; row Rows is the bottom row.  Date.now() timestamps of the   *)
(* state history and console logging are left out.                         *)
(***************************************************************************)
EXTENDS Integers, Sequences, FiniteSets, TLC

VARIABLES
    currentState,   \* GameStateMachine.currentState
    stateData,      \* GameStateMachine.stateData
    stateHistory,   \* GameStateMachine.stateHistory
    grid,           \* GameEvaluator.grid
    spinHistory,    \* GameEngine.spinHistory
    currentSpinId,  \* GameEngine.currentSpinId
    config,         \* GameEngine.config (initialBalance, initialBet)
    proc,           \* the spin() invocations in flight: position and locals
    nCalls,         \* number of calls made by the host so far
    rngs,           \* SeededRNG instances: their state words (SpecRNG,
                    \* SpecEngines; rngs[1] is the module's global `rng`)
    engines,        \* GameEngine instances sharing the global rng
                    \* (SpecEngines)
    held,           \* the state-data objects the host has got hold of
                    \* (SpecAlias)
    auto,           \* the processAutoSpin() invocations in flight
                    \* (SpecAuto)
    last            \* what the last step did (history variable)

vars == <<currentState, stateData, stateHistory, grid, spinHistory,
          currentSpinId, config, proc, nCalls, rngs, engines, held, auto,
          last>>

(***************************************************************************)
(* Bounds of the model.                                                    *)
(***************************************************************************)
MaxHistory == 6     \* SpecSM: accepted transitions per behaviour
MaxCalls == 2       \* Spec: host calls per behaviour
MaxDraws == 3       \* SpecRNG: next() calls per instance and seeding
MaxSpins == 2       \* SpecEngines: spin() calls per engine
MaxAliasCalls == 4  \* SpecAlias: calls made by the host
MaxAutoCalls == 3   \* SpecAuto: calls made by the host
MaxLoops == 2       \* SpecAuto: startAutoSpin() calls
MaxStarted == 2     \* SpecAuto: spins started per behaviour
MaxSimCalls == 4    \* SpecSim: simulateRTP() calls per behaviour
MaxSimSpins == 2    \* SpecSim: spins of one simulateRTP() call

(***************************************************************************)
(* GameState and GameEvent enums.                                          *)
(***************************************************************************)
IDLE == "idle"
SPINNING == "spinning"
EVALUATING == "evaluating"
TUMBLING == "tumbling"
SHOWING_WIN == "showing_win"
FREE_SPINS_TRIGGER == "free_spins_trigger"
FREE_SPINS == "free_spins"
GAME_OVER == "game_over"

GameState == {IDLE, SPINNING, EVALUATING, TUMBLING, SHOWING_WIN,
              FREE_SPINS_TRIGGER, FREE_SPINS, GAME_OVER}

SPIN == "spin"
SPIN_COMPLETE == "spin_complete"
EVALUATION_COMPLETE == "evaluation_complete"
WIN_DETECTED == "win_detected"
NO_WIN == "no_win"
TUMBLE_COMPLETE == "tumble_complete"
WIN_ANIMATION_COMPLETE == "win_animation_complete"
FREE_SPINS_TRIGGERED == "free_spins_triggered"
FREE_SPINS_COMPLETE == "free_spins_complete"
BALANCE_INSUFFICIENT == "balance_insufficient"
RESET == "reset"

GameEvent == {SPIN, SPIN_COMPLETE, EVALUATION_COMPLETE, WIN_DETECTED, NO_WIN,
              TUMBLE_COMPLETE, WIN_ANIMATION_COMPLETE, FREE_SPINS_TRIGGERED,
              FREE_SPINS_COMPLETE, BALANCE_INSUFFICIENT, RESET}

(***************************************************************************)
(* GameStateMachine                                                        *)
(***************************************************************************)

\* The constructor's defaults, overridden by initialData.
defaultStateData(initialData) ==
    [f \in {"balance", "bet", "totalWin", "cascadeCount", "freeSpinsRemaining",
            "isInFreeSpins", "multiplier", "lastWinAmount", "autoSpinCount",
            "maxAutoSpins", "stopOnWin", "stopOnLoss", "winThreshold",
            "lossThreshold"} |->
        IF f \in DOMAIN initialData THEN initialData[f]
        ELSE CASE f = "balance" -> 1000
               [] f = "bet" -> 1
               [] f = "multiplier" -> 1
               [] f \in {"isInFreeSpins", "stopOnWin", "stopOnLoss"} -> FALSE
               [] OTHER -> 0]

\* Guards and actions of the transition rules.
\* Faulty variant: the paid spin is taken whatever the balance.
idleSpinCondition_Always(data) == TRUE

idleSpinCondition(data) == data.balance >= data.bet

\* Faulty variant: the multiplier is not reset.
idleSpinAction_KeepsMultiplier(data) ==
    [data EXCEPT !.balance = @ - data.bet, !.cascadeCount = 0, !.totalWin = 0]

idleSpinAction(data) ==
    [data EXCEPT !.balance = @ - data.bet, !.cascadeCount = 0,
                 !.totalWin = 0, !.multiplier = 1]

\* Faulty variant: the rule to GAME_OVER never passes.
gameOverCondition_Never(data) == FALSE

gameOverCondition(data) == data.balance < data.bet

winDetectedAction(data) == [data EXCEPT !.cascadeCount = @ + 1]

freeSpinsTriggeredAction(data) == data

noWinAction(data) == [data EXCEPT !.cascadeCount = 0, !.multiplier = 1]

freeSpinsStartAction(data) == [data EXCEPT !.isInFreeSpins = TRUE]

freeSpinCondition(data) == data.freeSpinsRemaining > 0

freeSpinAction(data) ==
    [data EXCEPT !.freeSpinsRemaining = @ - 1, !.cascadeCount = 0]

freeSpinsCompleteAction(data) ==
    [data EXCEPT !.isInFreeSpins = FALSE, !.freeSpinsRemaining = 0,
                 !.balance = @ + data.totalWin, !.totalWin = 0]

\* Faulty variant: the remaining free spins survive the reset.
freeSpinsResetAction_KeepsRemaining(data) == [data EXCEPT !.isInFreeSpins = FALSE]

freeSpinsResetAction(data) ==
    [data EXCEPT !.isInFreeSpins = FALSE, !.freeSpinsRemaining = 0]

\* One rule of the table, its guard and its action evaluated on `data`
\* (a rule without a condition passes, a rule without an action keeps data).
Rule(from, to, event, condition, action) ==
    [from |-> from, to |-> to, event |-> event,
     condition |-> condition, action |-> action]

\* The transition table, in the order of the source.
initializeTransitions(data) ==
    << Rule(IDLE, SPINNING, SPIN, idleSpinCondition(data), idleSpinAction(data)),
       Rule(IDLE, GAME_OVER, SPIN, gameOverCondition(data), data),
       Rule(SPINNING, EVALUATING, SPIN_COMPLETE, TRUE, data),
       Rule(EVALUATING, SHOWING_WIN, WIN_DETECTED, TRUE, winDetectedAction(data)),
       Rule(EVALUATING, FREE_SPINS_TRIGGER, FREE_SPINS_TRIGGERED, TRUE,
            freeSpinsTriggeredAction(data)),
       Rule(EVALUATING, IDLE, NO_WIN, TRUE, noWinAction(data)),
       Rule(SHOWING_WIN, TUMBLING, WIN_ANIMATION_COMPLETE, TRUE, data),
       Rule(TUMBLING, EVALUATING, TUMBLE_COMPLETE, TRUE, data),
       Rule(FREE_SPINS_TRIGGER, FREE_SPINS, WIN_ANIMATION_COMPLETE, TRUE,
            freeSpinsStartAction(data)),
       Rule(FREE_SPINS, SPINNING, SPIN, freeSpinCondition(data),
            freeSpinAction(data)),
       Rule(FREE_SPINS, IDLE, FREE_SPINS_COMPLETE, TRUE,
            freeSpinsCompleteAction(data)),
       Rule(IDLE, IDLE, RESET, TRUE, data),
       Rule(SPINNING, IDLE, RESET, TRUE, data),
       Rule(EVALUATING, IDLE, RESET, TRUE, data),
       Rule(TUMBLING, IDLE, RESET, TRUE, data),
       Rule(SHOWING_WIN, IDLE, RESET, TRUE, data),
       Rule(FREE_SPINS_TRIGGER, IDLE, RESET, TRUE, data),
       Rule(FREE_SPINS, IDLE, RESET, TRUE, freeSpinsResetAction(data)),
       Rule(GAME_OVER, IDLE, RESET, TRUE, data) >>

\* The state machine as one value.
Machine(state, data, history) ==
    [currentState |-> state, stateData |-> data, stateHistory |-> history]

SM == Machine(currentState, stateData, stateHistory)

\* The rules from the current state for `event`, in table order.
validTransitions(sm, event) ==
    LET match(t) == t.from = sm.currentState /\ t.event = event
    IN  SelectSeq(initializeTransitions(sm.stateData), match)

\* The rules among them whose guard passes.
passingTransitions(sm, event) ==
    LET passes(t) == t.condition
    IN  SelectSeq(validTransitions(sm, event), passes)

\* Faulty variant: a rejected event is still recorded in the history.
processEvent_RecordsRejected(sm, event) ==
    LET passing == passingTransitions(sm, event)
    IN  IF passing # <<>>
        THEN LET t == passing[1]
             IN  [ok |-> TRUE,
                  sm |-> Machine(t.to, t.action,
                                 Append(sm.stateHistory,
                                        [state |-> t.to, event |-> event])),
                  notified |-> <<[previousState |-> sm.currentState,
                                  currentState |-> t.to, event |-> event]>>]
        ELSE [ok |-> FALSE,
              sm |-> [sm EXCEPT !.stateHistory =
                         Append(@, [state |-> sm.currentState, event |-> event])],
              notified |-> <<>>]

\* processEvent: the first rule whose guard passes fires; its action runs,
\* the state changes, the history grows and the listeners are notified.
\* `ok` is the returned boolean, `notified` the listener calls made.
processEvent(sm, event) ==
    LET passing == passingTransitions(sm, event)
    IN  IF passing # <<>>
        THEN LET t == passing[1]
             IN  [ok |-> TRUE,
                  sm |-> Machine(t.to, t.action,
                                 Append(sm.stateHistory,
                                        [state |-> t.to, event |-> event])),
                  notified |-> <<[previousState |-> sm.currentState,
                                  currentState |-> t.to, event |-> event]>>]
        ELSE [ok |-> FALSE, sm |-> sm, notified |-> <<>>]

\* Faulty variant: the remaining free spins are not looked at.
canSpin_AnyFreeSpins(sm) == sm.currentState \in {IDLE, FREE_SPINS}

canSpin(sm) ==
    \/ sm.currentState = IDLE
    \/ (sm.currentState = FREE_SPINS /\ sm.stateData.freeSpinsRemaining > 0)

\* Faulty variant: a balance equal to the loss threshold does not stop.
shouldContinueAutoSpin_BelowThreshold(sm) ==
    LET data == sm.stateData
    IN  IF data.autoSpinCount <= 0 THEN FALSE
        ELSE IF data.balance < data.bet THEN FALSE
        ELSE IF data.stopOnWin /\ data.lastWinAmount >= data.winThreshold THEN FALSE
        ELSE IF data.stopOnLoss /\ data.balance < data.lossThreshold THEN FALSE
        ELSE TRUE

shouldContinueAutoSpin(sm) ==
    LET data == sm.stateData
    IN  IF data.autoSpinCount <= 0 THEN FALSE
        ELSE IF data.balance < data.bet THEN FALSE
        ELSE IF data.stopOnWin /\ data.lastWinAmount >= data.winThreshold THEN FALSE
        ELSE IF data.stopOnLoss /\ data.balance <= data.lossThreshold THEN FALSE
        ELSE TRUE

updateStateData(sm, updates) ==
    [sm EXCEPT !.stateData =
        [f \in DOMAIN @ |-> IF f \in DOMAIN updates THEN updates[f] ELSE @[f]]]


(***************************************************************************)
(* Configuration (GameConfig): the paytable document is not part of the    *)
(* sources, so a small one is fixed here.  Payouts are integers.           *)
(***************************************************************************)
Columns == 2        \* gameSettings.gridSize.columns
Rows == 3           \* gameSettings.gridSize.rows
maxCascades == 2    \* gameSettings.maxCascades

\* config.symbols
symbols ==
    << [id |-> "candy_red", rarity |-> 1, minCluster |-> 2,
        payoutTable |-> (2 :> 1 @@ 6 :> 3)] >>

\* config.specialSymbols
specialSymbols ==
    << [id |-> "scatter", rarity |-> 1, freeSpinsTable |-> (4 :> 2 @@ 5 :> 3)],
       [id |-> "multiplier", rarity |-> 0, values |-> <<2, 10>>,
        weights |-> <<1, 1>>] >>

\* config.volatility.symbolRarityMultiplier (no entry: multiplier 1)
symbolRarityMultiplier == [id \in {} |-> 1]

(***************************************************************************)
(* SeededRNG (src/src/utils/rng.ts)                                        *)
(*                                                                         *)
(* A 32-bit pattern is a record [hi, lo] of its two 16-bit halves.  A      *)
(* number held by the generator is such a pattern with a flag `neg`: the   *)
(* number is hi * 2^16 + lo, less 2^32 when neg.  The int32 operators of   *)
(* the source (|, ^, <<, | 0, Math.imul) give a number that is negative    *)
(* when bit 31 is set; >>> gives one that never is.                        *)
(***************************************************************************)
Half == 65536

\* e, evaluated once v is: an operator's arguments are passed unevaluated,
\* and the draws of a whole spin left pending nest too deep to evaluate.
Having(v, e) == IF v = v THEN e ELSE e

Bits(hi, lo) == [hi |-> hi, lo |-> lo]

\* ToInt32 / ToUint32 reading of a pattern.
Int32(x) == [hi |-> x.hi, lo |-> x.lo, neg |-> x.hi >= 32768]

Uint32(x) == [hi |-> x.hi, lo |-> x.lo, neg |-> FALSE]

RECURSIVE Xor16(_, _, _)
Xor16(a, b, n) ==
    IF n = 1 THEN (a + b) % 2
    ELSE Xor16(a % (2 ^ (n \div 2)), b % (2 ^ (n \div 2)), n \div 2)
         + (2 ^ (n \div 2))
             * Xor16(a \div (2 ^ (n \div 2)), b \div (2 ^ (n \div 2)), n \div 2)

RECURSIVE Or16(_, _, _)
Or16(a, b, n) ==
    IF n = 1 THEN (IF a = 1 \/ b = 1 THEN 1 ELSE 0)
    ELSE Or16(a % (2 ^ (n \div 2)), b % (2 ^ (n \div 2)), n \div 2)
         + (2 ^ (n \div 2))
             * Or16(a \div (2 ^ (n \div 2)), b \div (2 ^ (n \div 2)), n \div 2)

\* x ^ y
Xor32(x, y) == Bits(Xor16(x.hi, y.hi, 16), Xor16(x.lo, y.lo, 16))

\* x | y
Or32(x, y) == Bits(Or16(x.hi, y.hi, 16), Or16(x.lo, y.lo, 16))

\* (x + y) | 0, as a pattern
Add32(x, y) ==
    Bits((x.hi + y.hi + ((x.lo + y.lo) \div Half)) % Half, (x.lo + y.lo) % Half)

\* x >>> k  (0 < k < 32)
Shr(x, k) ==
    IF k >= 16 THEN Bits(0, x.hi \div (2 ^ (k - 16)))
    ELSE Bits(x.hi \div (2 ^ k),
              (x.lo \div (2 ^ k)) + (x.hi % (2 ^ k)) * (2 ^ (16 - k)))

\* x << k  (0 < k < 32)
Shl(x, k) ==
    IF k >= 16 THEN Bits((x.lo * (2 ^ (k - 16))) % Half, 0)
    ELSE Bits(((x.hi * (2 ^ k)) % Half) + (x.lo \div (2 ^ (16 - k))),
              (x.lo * (2 ^ k)) % Half)

\* The 32-bit product of two 16-bit numbers, computed byte by byte.
Mul16(a, b) ==
    LET mid == (a \div 256) * (b % 256) + (a % 256) * (b \div 256)
        low == (a % 256) * (b % 256) + (mid % 256) * 256
    IN  Bits(((a \div 256) * (b \div 256) + (mid \div 256) + (low \div Half)) % Half,
             low % Half)

\* Math.imul(x, y)
Imul(x, y) ==
    Bits((Mul16(x.lo, y.lo).hi + Mul16(x.hi, y.lo).lo + Mul16(x.lo, y.hi).lo) % Half,
         Mul16(x.lo, y.lo).lo)

\* The constants of the constructor, of setSeed and of mulberry32Hash.
H1 == Bits(27145, 58983)    \* 1779033703
H2 == Bits(47975, 44677)    \* 3144134277
H3 == Bits(15470, 62322)    \* 1013904242
H4 == Bits(42319, 62778)    \* 2773480762
Golden == Bits(40503, 31161)    \* 0x9e3779b9
Mix1 == Bits(8688, 43693)       \* 0x21f0aaad
Mix2 == Bits(29530, 11671)      \* 0x735a2d97

\* mulberry32Hash(x)
mulberry32Hash(x) ==
    LET step3(t) == Having(t, Uint32(Xor32(t, Shr(t, 15))))
        step2(t) == Having(t, step3(Imul(Xor32(t, Shr(t, 15)), Mix2)))
        step1(y) == Having(y, step2(Imul(Xor32(y, Shr(y, 16)), Mix1)))
    IN  step1(Add32(x, Golden))

\* h ^ seedStr.charCodeAt(i)
XorChar(h, code) == Xor32(h, Bits(0, code))

\* The seeding loop of the constructor: the four accumulators after the
\* characters i.. of seedStr.
RECURSIVE constructorLoop(_, _, _)
constructorLoop(h, seedStr, i) ==
    IF i > Len(seedStr) THEN h
    ELSE LET hashed(h2) == Having(h2, constructorLoop(h2, seedStr, i + 1))
         IN  hashed([k \in 1..4 |-> mulberry32Hash(XorChar(h[k], seedStr[i]))])

\* new SeededRNG(seed): the state words a, b, c, d.
SeededRNG(seedStr) ==
    LET words(h) == [a |-> Uint32(h[1]), b |-> Uint32(h[2]),
                     c |-> Uint32(h[3]), d |-> Uint32(h[4])]
    IN  words(constructorLoop(<<H1, H2, H3, H4>>, seedStr, 1))

\* The seeding loop of setSeed.
RECURSIVE setSeedLoop(_, _, _)
setSeedLoop(h, seedStr, i) ==
    IF i > Len(seedStr) THEN h
    ELSE LET hashed(h2) == Having(h2, setSeedLoop(h2, seedStr, i + 1))
         IN  hashed([k \in 1..4 |-> mulberry32Hash(XorChar(h[k], seedStr[i]))])

\* Faulty variant: the counter word d is not re-seeded.
setSeed_KeepsCounter(st, seedStr) ==
    LET words(h) == [a |-> Uint32(h[1]), b |-> Uint32(h[2]),
                     c |-> Uint32(h[3]), d |-> st.d]
    IN  words(setSeedLoop(<<H1, H2, H3, H4>>, seedStr, 1))

\* rng.setSeed(seed) on an instance in state st.
setSeed(st, seedStr) ==
    LET words(h) == [a |-> Uint32(h[1]), b |-> Uint32(h[2]),
                     c |-> Uint32(h[3]), d |-> Uint32(h[4])]
    IN  words(setSeedLoop(<<H1, H2, H3, H4>>, seedStr, 1))

\* rng.next(): the new state and the 32-bit numerator of the returned
\* fraction (result >>> 0) / 4294967296.
next(st) ==
    LET after(t, d, rot, result) ==
            [st |-> [a |-> Int32(Xor32(st.b, Shr(st.b, 9))),
                     b |-> Int32(Add32(st.c, Shl(st.c, 3))),
                     c |-> Int32(Add32(rot, result)),
                     d |-> Int32(d)],
             value |-> Uint32(result)]
        withCounter(t, d) ==
            Having(<<t, d>>,
                   after(t, d, Or32(Shl(st.c, 21), Shr(st.c, 11)), Add32(t, d)))
    IN  withCounter(Add32(st.a, st.b), Add32(st.d, Bits(0, 1)))

\* Math.floor(value / 2^32 * n) for a draw numerator and 0 <= n < 2^15.
ScaleDown(value, n) == (value.hi * n + ((value.lo * n) \div Half)) \div Half

\* rng.nextInt(min, max)
nextInt(st, min, max) ==
    LET drawn(r) == [st |-> r.st, value |-> ScaleDown(r.value, max - min) + min]
    IN  drawn(next(st))

\* rng.choice(array); the source's index is 0-based.
choice(st, array) ==
    LET picked(r) == [st |-> r.st, value |-> array[r.value + 1]]
    IN  picked(nextInt(st, 0, Len(array)))

\* The loop of weightedChoice: `value` is the numerator of next(), `cum`
\* the weights subtracted so far; random <= 0 is value * total <= cum * 2^32.
RECURSIVE weightedChoiceLoop(_, _, _, _, _, _)
weightedChoiceLoop(value, items, weights, total, i, cum) ==
    IF i > Len(items) THEN items[Len(items)]
    ELSE LET scaled == value.hi * total + ((value.lo * total) \div Half)
             rest == (value.lo * total) % Half
             limit == (cum + weights[i]) * Half
         IN  IF scaled < limit \/ (scaled = limit /\ rest = 0)
             THEN items[i]
             ELSE weightedChoiceLoop(value, items, weights, total, i + 1,
                                     cum + weights[i])

RECURSIVE totalWeight(_)
totalWeight(weights) ==
    IF weights = <<>> THEN 0 ELSE Head(weights) + totalWeight(Tail(weights))

\* rng.weightedChoice(items, weights), for integer weights.
weightedChoice(st, items, weights) ==
    LET picked(r) ==
            [st |-> r.st,
             value |-> weightedChoiceLoop(r.value, items, weights,
                                          totalWeight(weights), 1, 0)]
    IN  picked(next(st))

(***************************************************************************)
(* GameEvaluator                                                           *)
(***************************************************************************)
Null == [null |-> TRUE]     \* an empty cell

Pos(col, row) == [col |-> col, row |-> row]

Positions == {Pos(c, r) : c \in 1..Columns, r \in 1..Rows}

InBounds(pos) ==
    pos.col >= 1 /\ pos.col <= Columns /\ pos.row >= 1 /\ pos.row <= Rows

\* A freshly created symbol (no clusterId yet).
NewSymbol(id, pos) == [id |-> id, position |-> pos]

At(g, pos) == g[pos.row][pos.col]

Put(g, pos, cell) == [g EXCEPT ![pos.row][pos.col] = cell]

\* initializeGrid: every cell empty.
initializeGrid == [r \in 1..Rows |-> [c \in 1..Columns |-> Null]]

\* The k-th position (k = 1..n) of a row-by-row scan, columns inside rows.
RowMajor(k) == Pos(((k - 1) % Columns) + 1, ((k - 1) \div Columns) + 1)

\* The k-th position of a column-by-column scan, rows inside columns.
ColMajor(k) == Pos(((k - 1) \div Rows) + 1, ((k - 1) % Rows) + 1)

NCells == Rows * Columns

\* Faulty variant: only the left and right neighbours are pushed.
RECURSIVE floodFillLoop_NoVertical(_, _, _, _, _)
floodFillLoop_NoVertical(g, symbolId, stack, visited, positions) ==
    IF stack = <<>>
    THEN [visited |-> visited, positions |-> positions]
    ELSE LET pos == stack[Len(stack)]
             rest == SubSeq(stack, 1, Len(stack) - 1)
         IN  IF pos \in visited \/ ~InBounds(pos)
             THEN floodFillLoop_NoVertical(g, symbolId, rest, visited, positions)
             ELSE IF At(g, pos) = Null \/ At(g, pos).id # symbolId
             THEN floodFillLoop_NoVertical(g, symbolId, rest, visited, positions)
             ELSE floodFillLoop_NoVertical(g, symbolId,
                      rest \o << Pos(pos.col - 1, pos.row),
                                 Pos(pos.col + 1, pos.row) >>,
                      visited \cup {pos}, Append(positions, pos))

\* The while loop of floodFill: pop a position; skip it when visited, out
\* of bounds, empty or of another symbol; else take it and push its four
\* neighbours.
RECURSIVE floodFillLoop(_, _, _, _, _)
floodFillLoop(g, symbolId, stack, visited, positions) ==
    IF stack = <<>>
    THEN [visited |-> visited, positions |-> positions]
    ELSE LET pos == stack[Len(stack)]
             rest == SubSeq(stack, 1, Len(stack) - 1)
         IN  IF pos \in visited
             THEN floodFillLoop(g, symbolId, rest, visited, positions)
             ELSE IF ~InBounds(pos)
             THEN floodFillLoop(g, symbolId, rest, visited, positions)
             ELSE IF At(g, pos) = Null \/ At(g, pos).id # symbolId
             THEN floodFillLoop(g, symbolId, rest, visited, positions)
             ELSE floodFillLoop(g, symbolId,
                      rest \o << Pos(pos.col - 1, pos.row),
                                 Pos(pos.col + 1, pos.row),
                                 Pos(pos.col, pos.row - 1),
                                 Pos(pos.col, pos.row + 1) >>,
                      visited \cup {pos}, Append(positions, pos))

\* Faulty variant: the marked cell is replaced by a symbol of the cluster's
\* number instead of being annotated.
RECURSIVE markCluster_ReplacesSymbol(_, _, _)
markCluster_ReplacesSymbol(g, positions, cid) ==
    IF positions = <<>> THEN g
    ELSE markCluster_ReplacesSymbol(
             Put(g, Head(positions),
                 [id |-> IF cid = 0 THEN "candy_red" ELSE "scatter",
                  position |-> Head(positions), clusterId |-> cid]),
             Tail(positions), cid)

\* Marks the symbols at the given positions as part of cluster `cid`.
RECURSIVE markCluster(_, _, _)
markCluster(g, positions, cid) ==
    IF positions = <<>> THEN g
    ELSE LET pos == Head(positions)
             cell == At(g, pos)
         IN  markCluster(
                 Put(g, pos, [id |-> cell.id, position |-> cell.position,
                              clusterId |-> cid]),
                 Tail(positions), cid)

\* floodFill from an occupied start cell: the cluster, the grown visited
\* set and the grid with the cluster's symbols marked.
floodFill(g, start, visited, cid) ==
    LET symbolId == At(g, start).id
        filled(res) ==
            [cluster |-> [id |-> cid, symbolId |-> symbolId,
                          positions |-> res.positions,
                          size |-> Len(res.positions), payout |-> 0],
             visited |-> res.visited,
             grid |-> markCluster(g, res.positions, cid)]
    IN  filled(floodFillLoop(g, symbolId, <<start>>, visited, <<>>))

\* Faulty variant: the visited set is dropped after every flood fill.
RECURSIVE findClustersFrom_ForgetsVisited(_, _, _, _)
findClustersFrom_ForgetsVisited(k, g, visited, clusters) ==
    IF k > NCells THEN [clusters |-> clusters, grid |-> g]
    ELSE LET pos == RowMajor(k)
         IN  IF pos \notin visited /\ At(g, pos) # Null
             THEN LET record(f) ==
                          findClustersFrom_ForgetsVisited(k + 1, f.grid, {},
                              Append(clusters, f.cluster))
                  IN  record(floodFill(g, pos, visited, Len(clusters)))
             ELSE findClustersFrom_ForgetsVisited(k + 1, g, {}, clusters)

\* findClusters: scan row by row; each unvisited occupied cell starts a
\* flood fill; a cluster with at least one position is recorded.
RECURSIVE findClustersFrom(_, _, _, _)
findClustersFrom(k, g, visited, clusters) ==
    IF k > NCells THEN [clusters |-> clusters, grid |-> g]
    ELSE LET pos == RowMajor(k)
         IN  IF pos \notin visited /\ At(g, pos) # Null
             THEN LET record(f) ==
                          IF Len(f.cluster.positions) >= 1
                          THEN findClustersFrom(k + 1, f.grid, f.visited,
                                                Append(clusters, f.cluster))
                          ELSE findClustersFrom(k + 1, f.grid, f.visited,
                                                clusters)
                  IN  record(floodFill(g, pos, visited, Len(clusters)))
             ELSE findClustersFrom(k + 1, g, visited, clusters)

findClusters(g) == findClustersFrom(1, g, {}, <<>>)

\* countScatters
countScatters(g) ==
    Cardinality({p \in Positions : At(g, p) # Null /\ At(g, p).id = "scatter"})

\* config.symbols.find(s => s.id === id) / specialSymbols.find(...)
FindById(table, id) == SelectSeq(table, LAMBDA s : s.id = id)

\* Faulty variant: a missing key reads the entry of the greatest key.
Lookup_GreatestKey(table, key) ==
    IF key \in DOMAIN table THEN table[key]
    ELSE IF DOMAIN table = {} THEN 0
    ELSE table[CHOOSE k \in DOMAIN table : \A j \in DOMAIN table : j <= k]

\* table[key.toString()] || 0
Lookup(table, key) == IF key \in DOMAIN table THEN table[key] ELSE 0

\* The positions holding the multiplier symbol, in row-by-row scan order.
RECURSIVE multiplierPositionsFrom(_, _)
multiplierPositionsFrom(k, g) ==
    IF k > NCells THEN <<>>
    ELSE LET pos == RowMajor(k)
             rest == multiplierPositionsFrom(k + 1, g)
         IN  IF At(g, pos) # Null /\ At(g, pos).id = "multiplier"
             THEN <<pos>> \o rest ELSE rest

\* What rng.weightedChoice(values, weights) can return.
weightedChoiceOutcomes(values, weights) ==
    {values[i] : i \in {j \in 1..Len(values) : weights[j] > 0}}

\* findMultiplierSymbols: one weighted draw per multiplier symbol; `draws`
\* gives the drawn values in scan order.
findMultiplierSymbols(g, draws) ==
    LET found == FindById(specialSymbols, "multiplier")
        where == multiplierPositionsFrom(1, g)
    IN  IF found = <<>> \/ "values" \notin DOMAIN found[1]
                       \/ "weights" \notin DOMAIN found[1]
        THEN <<>>
        ELSE [i \in 1..Len(where) |-> [position |-> where[i], value |-> draws[i]]]

\* The draws an evaluation of g can make.
MultiplierDraws(g, isFreeSpin) ==
    LET found == FindById(specialSymbols, "multiplier")
        n == IF isFreeSpin /\ found # <<>>
                /\ "values" \in DOMAIN found[1] /\ "weights" \in DOMAIN found[1]
             THEN Len(multiplierPositionsFrom(1, g)) ELSE 0
    IN  IF n = 0 THEN {<<>>}
        ELSE [1..n -> weightedChoiceOutcomes(found[1].values, found[1].weights)]

\* Faulty variant: the table is read as thresholds, the greatest key not
\* above the size paying.
clusterPayout_AtLeast(cluster, bet) ==
    LET found == FindById(symbols, cluster.symbolId)
        keys(table) == {k \in DOMAIN table : k <= cluster.size}
        best(table) == CHOOSE k \in keys(table) : \A j \in keys(table) : j <= k
    IN  IF found # <<>> /\ cluster.size >= found[1].minCluster
           /\ keys(found[1].payoutTable) # {}
        THEN found[1].payoutTable[best(found[1].payoutTable)] * bet
        ELSE 0

\* The payout of one cluster.
clusterPayout(cluster, bet) ==
    LET found == FindById(symbols, cluster.symbolId)
    IN  IF found # <<>> /\ cluster.size >= found[1].minCluster
        THEN Lookup(found[1].payoutTable, cluster.size) * bet
        ELSE 0

RECURSIVE SumSeq(_)
SumSeq(s) == IF s = <<>> THEN 0 ELSE Head(s) + SumSeq(Tail(s))

RECURSIVE ProdSeq(_)
ProdSeq(s) == IF s = <<>> THEN 1 ELSE Head(s) * ProdSeq(Tail(s))

\* Faulty variant: the first argument is returned whatever the second is.
Min_First(a, b) == a

Min(a, b) == IF a <= b THEN a ELSE b

\* Faulty variant: the multiplier is reported but not applied to the total.
evaluateWin_UnmultipliedTotal(g, bet, isFreeSpin, draws) ==
    LET scatter == FindById(specialSymbols, "scatter")
        paid(clusters) ==
            [i \in 1..Len(clusters) |->
                [clusters[i] EXCEPT !.payout = clusterPayout(clusters[i], bet)]]
        totalPayout(clusters) ==
            SumSeq([i \in 1..Len(clusters) |-> clusters[i].payout])
        freeSpinsAwarded(scatterCount) ==
            IF scatterCount >= 4 /\ scatter # <<>>
               /\ "freeSpinsTable" \in DOMAIN scatter[1]
            THEN Lookup(scatter[1].freeSpinsTable, scatterCount) ELSE 0
        multiplier(multiplierSymbols) ==
            IF isFreeSpin /\ Len(multiplierSymbols) > 0
            THEN Min(ProdSeq([i \in 1..Len(multiplierSymbols) |->
                                 multiplierSymbols[i].value]), 1000)
            ELSE 1
        winResult(clusters, scatterCount, multiplierSymbols, m) ==
            [clusters |-> clusters,
             totalPayout |-> totalPayout(clusters),
             multiplier |-> m,
             scatterCount |-> scatterCount,
             freeSpinsAwarded |-> freeSpinsAwarded(scatterCount),
             multiplierSymbols |-> multiplierSymbols]
        withMultipliers(found, multiplierSymbols) ==
            [result |-> winResult(paid(found.clusters), countScatters(g),
                                  multiplierSymbols, multiplier(multiplierSymbols)),
             grid |-> found.grid]
        withClusters(found) ==
            withMultipliers(found,
                IF isFreeSpin THEN findMultiplierSymbols(found.grid, draws)
                ELSE <<>>)
    IN  withClusters(findClusters(g))

\* Faulty variant: the multiplier symbols are resolved outside free spins too.
evaluateWin_ResolvesAlways(g, bet, isFreeSpin, draws) ==
    LET scatter == FindById(specialSymbols, "scatter")
        paid(clusters) ==
            [i \in 1..Len(clusters) |->
                [clusters[i] EXCEPT !.payout = clusterPayout(clusters[i], bet)]]
        totalPayout(clusters) ==
            SumSeq([i \in 1..Len(clusters) |-> clusters[i].payout])
        freeSpinsAwarded(scatterCount) ==
            IF scatterCount >= 4 /\ scatter # <<>>
               /\ "freeSpinsTable" \in DOMAIN scatter[1]
            THEN Lookup(scatter[1].freeSpinsTable, scatterCount) ELSE 0
        multiplier(multiplierSymbols) ==
            IF isFreeSpin /\ Len(multiplierSymbols) > 0
            THEN Min(ProdSeq([i \in 1..Len(multiplierSymbols) |->
                                 multiplierSymbols[i].value]), 1000)
            ELSE 1
        winResult(clusters, scatterCount, multiplierSymbols, m) ==
            [clusters |-> clusters,
             totalPayout |-> totalPayout(clusters) * m,
             multiplier |-> m,
             scatterCount |-> scatterCount,
             freeSpinsAwarded |-> freeSpinsAwarded(scatterCount),
             multiplierSymbols |-> multiplierSymbols]
        withMultipliers(found, multiplierSymbols) ==
            [result |-> winResult(paid(found.clusters), countScatters(g),
                                  multiplierSymbols, multiplier(multiplierSymbols)),
             grid |-> found.grid]
        withClusters(found) ==
            withMultipliers(found, findMultiplierSymbols(found.grid, draws))
    IN  withClusters(findClusters(g))

\* evaluateWin: the WinResult and the grid with its clusterId marks.
evaluateWin(g, bet, isFreeSpin, draws) ==
    LET scatter == FindById(specialSymbols, "scatter")
        paid(clusters) ==
            [i \in 1..Len(clusters) |->
                [clusters[i] EXCEPT !.payout = clusterPayout(clusters[i], bet)]]
        totalPayout(clusters) ==
            SumSeq([i \in 1..Len(clusters) |-> clusters[i].payout])
        freeSpinsAwarded(scatterCount) ==
            IF scatterCount >= 4 /\ scatter # <<>>
               /\ "freeSpinsTable" \in DOMAIN scatter[1]
            THEN Lookup(scatter[1].freeSpinsTable, scatterCount) ELSE 0
        multiplier(multiplierSymbols) ==
            IF isFreeSpin /\ Len(multiplierSymbols) > 0
            THEN Min(ProdSeq([i \in 1..Len(multiplierSymbols) |->
                                 multiplierSymbols[i].value]), 1000)
            ELSE 1
        winResult(clusters, scatterCount, multiplierSymbols, m) ==
            [clusters |-> clusters,
             totalPayout |-> totalPayout(clusters) * m,
             multiplier |-> m,
             scatterCount |-> scatterCount,
             freeSpinsAwarded |-> freeSpinsAwarded(scatterCount),
             multiplierSymbols |-> multiplierSymbols]
        withMultipliers(found, multiplierSymbols) ==
            [result |-> winResult(paid(found.clusters), countScatters(g),
                                  multiplierSymbols, multiplier(multiplierSymbols)),
             grid |-> found.grid]
        withClusters(found) ==
            withMultipliers(found,
                IF isFreeSpin THEN findMultiplierSymbols(found.grid, draws)
                ELSE <<>>)
    IN  withClusters(findClusters(g))

\* All positions referenced by the clusters.
ClusterPositions(clusters) ==
    UNION {{clusters[i].positions[j] : j \in 1..Len(clusters[i].positions)} :
              i \in 1..Len(clusters)}

\* The positions of the clusters that pay.
PayingPositions(clusters) ==
    UNION {{clusters[i].positions[j] : j \in 1..Len(clusters[i].positions)} :
              i \in {k \in 1..Len(clusters) : clusters[k].payout > 0}}

\* removeWinningSymbols: empties every position of the given clusters.
removeWinningSymbols(g, clusters) ==
    LET gone == ClusterPositions(clusters)
    IN  [r \in 1..Rows |-> [c \in 1..Columns |->
            IF Pos(c, r) \in gone THEN Null ELSE g[r][c]]]

\* The non-empty symbols of column col, from the bottom row up.
RECURSIVE columnFromBottom(_, _, _)
columnFromBottom(g, col, row) ==
    IF row < 1 THEN <<>>
    ELSE IF g[row][col] # Null
         THEN <<g[row][col]>> \o columnFromBottom(g, col, row - 1)
         ELSE columnFromBottom(g, col, row - 1)

\* Faulty variant: the collected symbols are placed in reverse order.
applyGravity_Reversed(g) ==
    [r \in 1..Rows |-> [c \in 1..Columns |->
        LET column == columnFromBottom(g, c, Rows)
            i == Rows - r + 1
        IN  IF i <= Len(column)
            THEN [column[Len(column) - i + 1] EXCEPT !.position = Pos(c, r)]
            ELSE Null]]

\* applyGravity: per column the symbols are placed from the bottom up in
\* the order collected, their position rewritten; the rest is empty.
applyGravity(g) ==
    [r \in 1..Rows |-> [c \in 1..Columns |->
        LET column == columnFromBottom(g, c, Rows)
            i == Rows - r + 1
        IN  IF i <= Len(column)
            THEN [column[i] EXCEPT !.position = Pos(c, r)]
            ELSE Null]]

\* generateSymbolPool: each symbol repeated round(rarity * multiplier) times.
RECURSIVE Repeat(_, _)
Repeat(id, n) == IF n <= 0 THEN <<>> ELSE <<id>> \o Repeat(id, n - 1)

RECURSIVE poolOf(_, _)
poolOf(table, volatilityMultipliers) ==
    IF table = <<>> THEN <<>>
    ELSE LET s == Head(table)
             multiplier == IF s.id \in DOMAIN volatilityMultipliers
                              /\ volatilityMultipliers[s.id] # 0
                           THEN volatilityMultipliers[s.id] ELSE 1
         IN  Repeat(s.id, s.rarity * multiplier)
                 \o poolOf(Tail(table), volatilityMultipliers)

generateSymbolPool(volatilityMultipliers) ==
    poolOf(symbols, volatilityMultipliers)
        \o poolOf(specialSymbols, volatilityMultipliers)

\* The rng.choice(symbolPool) draws of one fillEmptyPositions call: one pool
\* entry per cell (the entries drawn for occupied cells are not used).
AllPicks(symbolPool) ==
    [Positions -> {symbolPool[i] : i \in 1..Len(symbolPool)}]

\* The draws the engine specification considers: all cells alike, alike
\* within each row and alternating between rows, or alternating like a
\* checkerboard.
Picks(symbolPool) ==
    LET ids == {symbolPool[i] : i \in 1..Len(symbolPool)}
    IN  {[pos \in Positions |-> a] : a \in ids}
        \cup {[pos \in Positions |-> IF pos.row % 2 = 1 THEN a ELSE b] :
                 a \in ids, b \in ids}
        \cup {[pos \in Positions |-> IF (pos.row + pos.col) % 2 = 0 THEN a ELSE b] :
                 a \in ids, b \in ids}

\* The draws from the pool the engine builds for its volatility settings.
EnginePicks == Picks(generateSymbolPool(symbolRarityMultiplier))

\* The rng.choice(symbolPool) draws of one fillEmptyPositions call made on
\* the generator in state st: one draw per empty cell, column by column.
RECURSIVE drawPicksFrom(_, _, _, _, _)
drawPicksFrom(k, g, symbolPool, st, picks) ==
    IF k > NCells THEN [st |-> st, picks |-> picks]
    ELSE IF At(g, ColMajor(k)) # Null
         THEN drawPicksFrom(k + 1, g, symbolPool, st, picks)
         ELSE LET drawn(r) ==
                      Having(r, drawPicksFrom(k + 1, g, symbolPool, r.st,
                                    [picks EXCEPT ![ColMajor(k)] = r.value]))
              IN  drawn(choice(st, symbolPool))

drawPicks(st, g, symbolPool) ==
    drawPicksFrom(1, g, symbolPool, st, [pos \in Positions |-> symbolPool[1]])

\* The rng.weightedChoice draws of one findMultiplierSymbols call made on
\* the generator in state st: n draws, in scan order.
RECURSIVE drawMultiplierValues(_, _, _, _)
drawMultiplierValues(st, values, weights, n) ==
    IF n = 0 THEN [st |-> st, draws |-> <<>>]
    ELSE LET first(r) ==
                 LET others(d) == [st |-> d.st, draws |-> <<r.value>> \o d.draws]
                 IN  Having(r, others(drawMultiplierValues(r.st, values, weights, n - 1)))
         IN  first(weightedChoice(st, values, weights))

\* The number of draws an evaluation of g makes.
multiplierDrawCount(g, isFreeSpin) ==
    LET found == FindById(specialSymbols, "multiplier")
    IN  IF isFreeSpin /\ found # <<>>
           /\ "values" \in DOMAIN found[1] /\ "weights" \in DOMAIN found[1]
        THEN Len(multiplierPositionsFrom(1, g)) ELSE 0

\* fillEmptyPositions: every empty cell gets a new symbol drawn from the pool.
fillEmptyPositions(g, picks) ==
    [r \in 1..Rows |-> [c \in 1..Columns |->
        IF g[r][c] = Null THEN NewSymbol(picks[Pos(c, r)], Pos(c, r))
        ELSE g[r][c]]]


(***************************************************************************)
(* GameEngine                                                              *)
(*                                                                         *)
(* spin() is an async function.  Its code between two awaits runs as one   *)
(* step; proc[p].pc is the await invocation p is suspended at:             *)
(*   "gen"     await this.generateNewGrid()        (resumes as a microtask)*)
(*   "anim"    await ... setTimeout(resolve, 2000) (win animation)         *)
(*   "tumble"  await ... setTimeout(resolve, 800)  (tumble animation)      *)
(* A timer fires only when no microtask is pending.  The host may call the *)
(* engine's methods whenever no step is running.                           *)
(***************************************************************************)
Procs == 1..MaxCalls

FreeProc == [pc |-> "free"]

InFlight(p) == proc[p].pc # "free"

\* The locals of evaluateAndCascade at its start.
startLocals(sm) == [stateData |-> sm.stateData, cascades |-> <<>>, totalWin |-> 0]

\* The default WinResult of a SpinResult without cascades.
emptyWinResult ==
    [clusters |-> <<>>, totalPayout |-> 0, multiplier |-> 1, scatterCount |-> 0,
     freeSpinsAwarded |-> 0, multiplierSymbols |-> <<>>]

\* Faulty variant: the win is credited to the live balance a second time.
finalizeSpin_CreditsTwice(sm, g, loc) ==
    LET newBalance == loc.stateData.balance + loc.totalWin
        sm1 == updateStateData(sm,
                   [totalWin |-> loc.stateData.totalWin + loc.totalWin,
                    lastWinAmount |-> loc.totalWin])
        sm2 == IF ~loc.stateData.isInFreeSpins
               THEN updateStateData(sm1, [balance |-> newBalance + loc.totalWin])
               ELSE sm1
    IN  [sm |-> sm2,
         spinResult |->
            [grid |-> g,
             winResult |-> IF loc.cascades # <<>> THEN loc.cascades[1]
                           ELSE emptyWinResult,
             cascades |-> loc.cascades,
             totalWin |-> loc.totalWin,
             newBalance |-> IF loc.stateData.isInFreeSpins
                            THEN loc.stateData.balance ELSE newBalance,
             freeSpinsAwarded |->
                SumSeq([i \in 1..Len(loc.cascades) |->
                           loc.cascades[i].freeSpinsAwarded]),
             isFreeSpin |-> loc.stateData.isInFreeSpins,
             gameState |-> sm2.currentState]]

\* The end of evaluateAndCascade, after the loop: the state data is updated
\* from the locals and the SpinResult is built.
finalizeSpin(sm, g, loc) ==
    LET newBalance == loc.stateData.balance + loc.totalWin
        sm1 == updateStateData(sm,
                   [totalWin |-> loc.stateData.totalWin + loc.totalWin,
                    lastWinAmount |-> loc.totalWin])
        sm2 == IF ~loc.stateData.isInFreeSpins
               THEN updateStateData(sm1, [balance |-> newBalance])
               ELSE sm1
    IN  [sm |-> sm2,
         spinResult |->
            [grid |-> g,
             winResult |-> IF loc.cascades # <<>> THEN loc.cascades[1]
                           ELSE emptyWinResult,
             cascades |-> loc.cascades,
             totalWin |-> loc.totalWin,
             newBalance |-> IF loc.stateData.isInFreeSpins
                            THEN loc.stateData.balance ELSE newBalance,
             freeSpinsAwarded |->
                SumSeq([i \in 1..Len(loc.cascades) |->
                           loc.cascades[i].freeSpinsAwarded]),
             isFreeSpin |-> loc.stateData.isInFreeSpins,
             gameState |-> sm2.currentState]]

\* The part of the loop body before its first await, for a WinResult that
\* counts as a win: the cascade is recorded and the event is fired.
recordCascade(sm, loc, winResult) ==
    LET loc1 == [loc EXCEPT !.cascades = Append(@, winResult),
                            !.totalWin = @ + winResult.totalPayout]
        sm1 == IF winResult.freeSpinsAwarded > 0
               THEN updateStateData(sm,
                        [freeSpinsRemaining |->
                            loc.stateData.freeSpinsRemaining
                                + winResult.freeSpinsAwarded])
               ELSE sm
        event == IF winResult.freeSpinsAwarded > 0
                 THEN FREE_SPINS_TRIGGERED ELSE WIN_DETECTED
        r == processEvent(sm1, event)
    IN  [sm |-> r.sm, loc |-> loc1, fired |-> <<[event |-> event, ok |-> r.ok]>>]

\* The loop test of evaluateAndCascade on a WinResult.
isWin(winResult) ==
    Len(winResult.clusters) > 0 \/ winResult.scatterCount >= 4

\* evaluateAndCascade from the head of its loop to its next await or to its
\* end.  `fired` are the events fired so far in this step.
loopStep(sm, g, loc, draws, fired) ==
    IF Len(loc.cascades) < maxCascades
    THEN LET won(ev, rc) ==
                 [pc |-> "anim", sm |-> rc.sm, grid |-> ev.grid,
                  loc |-> rc.loc, fired |-> fired \o rc.fired,
                  evaluated |-> <<ev.result>>]
             ended(ev, r, fin) ==
                 [pc |-> "free", sm |-> fin.sm, grid |-> ev.grid,
                  loc |-> loc, spinResult |-> fin.spinResult,
                  fired |-> Append(fired, [event |-> NO_WIN, ok |-> r.ok]),
                  evaluated |-> <<ev.result>>]
             noWin(ev, r) == ended(ev, r, finalizeSpin(r.sm, ev.grid, loc))
             body(ev) ==
                 IF isWin(ev.result)
                 THEN won(ev, recordCascade(sm, loc, ev.result))
                 ELSE noWin(ev, processEvent(sm, NO_WIN))
         IN  body(evaluateWin(g, loc.stateData.bet,
                              loc.stateData.isInFreeSpins, draws))
    ELSE LET done(fin) ==
                 [pc |-> "free", sm |-> fin.sm, grid |-> g, loc |-> loc,
                  spinResult |-> fin.spinResult, fired |-> fired,
                  evaluated |-> <<>>]
         IN  done(finalizeSpin(sm, g, loc))


\* startAutoSpin(settings) up to its call of processAutoSpin().
startAutoSpinData(sm, settings) ==
    updateStateData(sm,
        [autoSpinCount |-> settings.count, maxAutoSpins |-> settings.count,
         stopOnWin |-> settings.stopOnWin, stopOnLoss |-> settings.stopOnLoss,
         winThreshold |-> settings.winThreshold,
         lossThreshold |-> settings.lossThreshold])

\* Faulty variant: the count is left as it is.
stopAutoSpin_KeepsCount(sm) == sm

\* stopAutoSpin()
stopAutoSpin(sm) == updateStateData(sm, [autoSpinCount |-> 0])

\* Faulty variant: the loss threshold is not looked at.
continueAutoSpin_IgnoresLoss(sm) ==
    shouldContinueAutoSpin(
        [sm EXCEPT !.stateData = [@ EXCEPT !.stopOnLoss = FALSE]])

\* The condition of the while loop of processAutoSpin.
continueAutoSpin(sm) == shouldContinueAutoSpin(sm)

\* processAutoSpin after `await this.spin()` returned a result.
decrementAutoSpinCount(sm) ==
    updateStateData(sm, [autoSpinCount |-> sm.stateData.autoSpinCount - 1])

\* The guard of spin(): canSpin() holds and the SPIN event is accepted.
spinAccepted(sm) == canSpin(sm) /\ processEvent(sm, SPIN).ok

\* generateNewGrid: a fresh grid filled from the symbol pool.
generateNewGrid(picks) == fillEmptyPositions(initializeGrid, picks)

\* setBet's test of the amount against a snapshot of the state data.
\* Faulty variant: the balance is not compared.
setBetAccepted_IgnoresBalance(sm, amount) == amount > 0

setBetAccepted(sm, amount) == amount <= sm.stateData.balance /\ amount > 0

\* GameStateMachine.reset(newData) as called by GameEngine.reset().
resetMachine(sm, initialBalance, initialBet) ==
    updateStateData([sm EXCEPT !.currentState = IDLE],
        [balance |-> initialBalance, bet |-> initialBet, totalWin |-> 0,
         cascadeCount |-> 0, freeSpinsRemaining |-> 0, isInFreeSpins |-> FALSE,
         multiplier |-> 1, lastWinAmount |-> 0, autoSpinCount |-> 0])

\* A whole spin of an engine whose spin() is awaited before any other call
\* is made: evaluateAndCascade from the head of its loop to its end, the
\* draws taken from the generator in state st.
RECURSIVE cascadeToEnd(_, _, _, _, _)
cascadeToEnd(sm, g, loc, st, symbolPool) ==
    LET tumbled(step, r1, g2, p) ==
            LET refilled(r2) ==
                    Having(p, cascadeToEnd(r2.sm, fillEmptyPositions(g2, p.picks),
                                           step.loc, p.st, symbolPool))
            IN  refilled(processEvent(r1.sm, TUMBLE_COMPLETE))
        animated(step, r1, g2, st1) ==
            Having(<<r1, g2>>, tumbled(step, r1, g2, drawPicks(st1, g2, symbolPool)))
        stepped(step, st1) ==
            IF step.pc = "free"
            THEN [sm |-> step.sm, grid |-> step.grid, st |-> st1,
                  result |-> step.spinResult]
            ELSE animated(step, processEvent(step.sm, WIN_ANIMATION_COMPLETE),
                     applyGravity(removeWinningSymbols(step.grid,
                         step.loc.cascades[Len(step.loc.cascades)].clusters)),
                     st1)
        evaluated(d) == Having(d, stepped(loopStep(sm, g, loc, d.draws, <<>>), d.st))
        found == FindById(specialSymbols, "multiplier")
    IN  Having(<<sm, g, loc, st>>, evaluated(
            IF Len(loc.cascades) < maxCascades
               /\ multiplierDrawCount(g, loc.stateData.isInFreeSpins) > 0
            THEN drawMultiplierValues(st, found[1].values, found[1].weights,
                     multiplierDrawCount(g, loc.stateData.isInFreeSpins))
            ELSE [st |-> st, draws |-> <<>>]))

\* engine.spin(), awaited: the machine, the grid and the generator after
\* it, and what it resolves to (Null for a rejected call).
spinToEnd(sm, g, st, symbolPool) ==
    IF ~spinAccepted(sm)
    THEN [sm |-> sm, grid |-> g, st |-> st, result |-> Null]
    ELSE LET generated(r, p) ==
                 LET completed(r2) ==
                         Having(p, cascadeToEnd(r2.sm,
                             fillEmptyPositions(initializeGrid, p.picks),
                             startLocals(r2.sm), p.st, symbolPool))
                 IN  completed(processEvent(r.sm, SPIN_COMPLETE))
             accepted(r) == generated(r, drawPicks(st, initializeGrid, symbolPool))
         IN  accepted(processEvent(sm, SPIN))

\* Faulty variant of simulateCascades: the grid is not refilled after a
\* cascade, so no draws are made for it.
RECURSIVE simulateCascades_NoRefill(_, _, _, _, _, _)
simulateCascades_NoRefill(g, st, bet, symbolPool, results, totalWins) ==
    IF Len(results) < maxCascades
    THEN LET evaluated(ev) ==
                 IF Len(ev.result.clusters) = 0
                 THEN [st |-> st, grid |-> ev.grid, results |-> results,
                       totalWins |-> totalWins]
                 ELSE simulateCascades_NoRefill(
                          applyGravity(removeWinningSymbols(ev.grid,
                                                            ev.result.clusters)),
                          st, bet, symbolPool, Append(results, ev.result),
                          totalWins + ev.result.totalPayout)
         IN  evaluated(evaluateWin(g, bet, FALSE, <<>>))
    ELSE [st |-> st, grid |-> g, results |-> results, totalWins |-> totalWins]

\* The while loop of simulateRTP for one spin: evaluate, and on a result
\* with clusters add its payout, remove, apply gravity and refill, up to
\* maxCascades times.  `results` are the WinResults added so far (the
\* loop's cascadeCount is their number), the draws are taken from the
\* generator in state st.
RECURSIVE simulateCascades(_, _, _, _, _, _)
simulateCascades(g, st, bet, symbolPool, results, totalWins) ==
    IF Len(results) < maxCascades
    THEN LET refilled(ev, g2, p) ==
                 Having(p, simulateCascades(fillEmptyPositions(g2, p.picks),
                               p.st, bet, symbolPool,
                               Append(results, ev.result),
                               totalWins + ev.result.totalPayout))
             tumbled(ev, g2) ==
                 Having(g2, refilled(ev, g2, drawPicks(st, g2, symbolPool)))
             evaluated(ev) ==
                 IF Len(ev.result.clusters) = 0
                 THEN [st |-> st, grid |-> ev.grid, results |-> results,
                       totalWins |-> totalWins]
                 ELSE tumbled(ev, applyGravity(
                          removeWinningSymbols(ev.grid, ev.result.clusters)))
         IN  Having(<<g, st>>, evaluated(evaluateWin(g, bet, FALSE, <<>>)))
    ELSE [st |-> st, grid |-> g, results |-> results, totalWins |-> totalWins]

\* simulateRTP(spins, bet) on the generator in state st: the body of its
\* for loop `spins` times.  g is the evaluator's grid, spinResults[i] are
\* the WinResults of spin i;
\* the percentage returned is totalWins / totalBet * 100.
RECURSIVE simulateRTPLoop(_, _, _, _, _, _)
simulateRTPLoop(g, st, spins, bet, spinResults, totalWins) ==
    IF spins = 0
    THEN [st |-> st, grid |-> g, spinResults |-> spinResults,
          totalWins |-> totalWins, totalBet |-> Len(spinResults) * bet]
    ELSE LET symbolPool == generateSymbolPool([id \in {} |-> 1])
             cascaded(c) ==
                 Having(c, simulateRTPLoop(c.grid, c.st, spins - 1, bet,
                               Append(spinResults, c.results),
                               totalWins + c.totalWins))
             filled(p) ==
                 Having(p, cascaded(simulateCascades(
                               fillEmptyPositions(initializeGrid, p.picks),
                               p.st, bet, symbolPool, <<>>, 0)))
         IN  filled(drawPicks(st, initializeGrid, symbolPool))

simulateRTP(st, spins, bet) ==
    simulateRTPLoop(initializeGrid, st, spins, bet, <<>>, 0)

(***************************************************************************)
(* State, initial condition and steps.                                     *)
(***************************************************************************)
SetMachine(sm) ==
    /\ currentState' = sm.currentState
    /\ stateData' = sm.stateData
    /\ stateHistory' = sm.stateHistory

\* What a step remembers of the state it started in.
Pre == [currentState |-> currentState, stateData |-> stateData, grid |-> grid,
        stateHistory |-> stateHistory,
        inFlight |-> {q \in Procs : InFlight(q)}]

\* A host call ends the undisturbed run of every spin in flight.
Disturbed(pr) ==
    [q \in Procs |-> IF pr[q].pc # "free" THEN [pr[q] EXCEPT !.alone = FALSE]
                     ELSE pr[q]]

LowestFree == CHOOSE q \in Procs :
                 /\ ~InFlight(q)
                 /\ \A r \in Procs : ~InFlight(r) => q <= r

MicrotaskPending == \E q \in Procs : proc[q].pc = "gen"

InitialBalances == {0, 2}
BetAmounts == {0, 2}
AddAmounts == {1}

Init ==
    /\ config \in {[initialBalance |-> b, initialBet |-> 1] : b \in InitialBalances}
    /\ currentState = IDLE
    /\ stateData = defaultStateData([balance |-> config.initialBalance,
                                     bet |-> config.initialBet])
    /\ stateHistory = <<>>
    /\ grid = initializeGrid
    /\ spinHistory = <<>>
    /\ currentSpinId = 0
    /\ proc = [p \in Procs |-> FreeProc]
    /\ nCalls = 0
    /\ rngs = <<>>
    /\ engines = <<>>
    /\ held = <<>>
    /\ auto = <<>>
    /\ last = [op |-> "init"]

\* engine.spin() up to its first await, the draws of generateNewGrid
\* taken from pickSet.
SpinWith(pickSet) ==
    /\ nCalls < MaxCalls
    /\ nCalls' = nCalls + 1
    /\ IF spinAccepted(SM)
       THEN /\ \E q \in Procs : ~InFlight(q)
            /\ \E picks \in pickSet :
                 LET r == processEvent(SM, SPIN)
                     p == LowestFree
                 IN  /\ SetMachine(r.sm)
                     /\ grid' = generateNewGrid(picks)
                     /\ proc' = [Disturbed(proc) EXCEPT ![p] =
                            [pc |-> "gen",
                             loc |-> startLocals(r.sm),
                             call |-> Pre,
                             alone |-> \A q \in Procs : ~InFlight(q),
                             afterSpin |-> r.sm.stateData]]
                     /\ last' = [op |-> "spin", ret |-> "pending", p |-> p,
                                 pre |-> Pre,
                                 fired |-> <<[event |-> SPIN, ok |-> r.ok]>>]
            /\ UNCHANGED <<spinHistory, currentSpinId, config, rngs, engines, held, auto>>
       ELSE /\ last' = [op |-> "spin", ret |-> "null", p |-> 0, pre |-> Pre,
                        fired |-> IF canSpin(SM)
                                  THEN <<[event |-> SPIN, ok |-> FALSE]>>
                                  ELSE <<>>]
            /\ proc' = Disturbed(proc)
            /\ UNCHANGED <<currentState, stateData, stateHistory, grid,
                           spinHistory, currentSpinId, config, rngs, engines, held, auto>>

Spin == SpinWith(EnginePicks)

\* The effect of a loopStep outcome of invocation p.
ApplyStep(p, step, op) ==
    /\ SetMachine(step.sm)
    /\ grid' = step.grid
    /\ IF step.pc = "free"
       THEN /\ proc' = [proc EXCEPT ![p] = FreeProc]
            /\ spinHistory' = Append(spinHistory, step.spinResult)
            /\ currentSpinId' = currentSpinId + 1
            /\ last' = [op |-> op, p |-> p, pre |-> Pre, fired |-> step.fired,
                        evaluated |-> step.evaluated, resolved |-> TRUE,
                        result |-> step.spinResult, call |-> proc[p].call,
                        alone |-> proc[p].alone,
                        afterSpin |-> proc[p].afterSpin,
                        recorded |-> Len(step.loc.cascades)
                                        - Len(proc[p].loc.cascades)]
       ELSE /\ proc' = [proc EXCEPT ![p].pc = step.pc, ![p].loc = step.loc]
            /\ UNCHANGED <<spinHistory, currentSpinId>>
            /\ last' = [op |-> op, p |-> p, pre |-> Pre, fired |-> step.fired,
                        evaluated |-> step.evaluated, resolved |-> FALSE,
                        call |-> proc[p].call, alone |-> proc[p].alone,
                        recorded |-> Len(step.loc.cascades)
                                        - Len(proc[p].loc.cascades)]
    /\ UNCHANGED <<config, nCalls, rngs, engines, held, auto>>

\* spin() resumed after `await this.generateNewGrid()`.
ResumeGen(p) ==
    /\ proc[p].pc = "gen"
    /\ LET r == processEvent(SM, SPIN_COMPLETE)
           loc == startLocals(r.sm)
       IN  \E draws \in MultiplierDraws(grid, loc.stateData.isInFreeSpins) :
              ApplyStep(p, loopStep(r.sm, grid, loc, draws,
                            <<[event |-> SPIN_COMPLETE, ok |-> r.ok]>>),
                        "resumeGen")

\* evaluateAndCascade resumed after the win animation delay, the draws of
\* fillEmptyPositions taken from pickSet.
ResumeAnimWith(p, pickSet) ==
    /\ proc[p].pc = "anim"
    /\ ~MicrotaskPending
    /\ LET r == processEvent(SM, WIN_ANIMATION_COMPLETE)
           winResult == proc[p].loc.cascades[Len(proc[p].loc.cascades)]
           g1 == removeWinningSymbols(grid, winResult.clusters)
           g2 == applyGravity(g1)
       IN  /\ \E picks \in pickSet :
                 grid' = fillEmptyPositions(g2, picks)
           /\ SetMachine(r.sm)
           /\ proc' = [proc EXCEPT ![p].pc = "tumble"]
           /\ last' = [op |-> "resumeAnim", p |-> p, pre |-> Pre,
                       fired |-> <<[event |-> WIN_ANIMATION_COMPLETE,
                                    ok |-> r.ok]>>,
                       winResult |-> winResult,
                       removed |-> {pos \in Positions :
                                       At(grid, pos) # Null /\ At(g1, pos) = Null},
                       afterGravity |-> g2,
                       call |-> proc[p].call, alone |-> proc[p].alone]
    /\ UNCHANGED <<spinHistory, currentSpinId, config, nCalls, rngs, engines, held, auto>>

ResumeAnim(p) ==
    ResumeAnimWith(p, EnginePicks)

\* evaluateAndCascade resumed after the tumble animation delay.
ResumeTumble(p) ==
    /\ proc[p].pc = "tumble"
    /\ ~MicrotaskPending
    /\ LET r == processEvent(SM, TUMBLE_COMPLETE)
           loc == proc[p].loc
       IN  \E draws \in MultiplierDraws(grid, loc.stateData.isInFreeSpins) :
              ApplyStep(p, loopStep(r.sm, grid, loc, draws,
                            <<[event |-> TUMBLE_COMPLETE, ok |-> r.ok]>>),
                        "resumeTumble")

\* engine.setBet(amount)
SetBet(amount) ==
    /\ nCalls < MaxCalls
    /\ nCalls' = nCalls + 1
    /\ LET ok == setBetAccepted(SM, amount)
           sm == IF ok THEN updateStateData(SM, [bet |-> amount]) ELSE SM
       IN  /\ SetMachine(sm)
           /\ last' = [op |-> "setBet", amount |-> amount, ret |-> ok, pre |-> Pre]
    /\ proc' = Disturbed(proc)
    /\ UNCHANGED <<grid, spinHistory, currentSpinId, config, rngs, engines, held, auto>>

\* engine.addBalance(amount)
AddBalance(amount) ==
    /\ nCalls < MaxCalls
    /\ nCalls' = nCalls + 1
    /\ SetMachine(updateStateData(SM, [balance |-> stateData.balance + amount]))
    /\ last' = [op |-> "addBalance", amount |-> amount, pre |-> Pre]
    /\ proc' = Disturbed(proc)
    /\ UNCHANGED <<grid, spinHistory, currentSpinId, config, rngs, engines, held, auto>>

\* engine.reset()
Reset ==
    /\ nCalls < MaxCalls
    /\ nCalls' = nCalls + 1
    /\ SetMachine(resetMachine(SM, config.initialBalance, config.initialBet))
    /\ grid' = initializeGrid
    /\ spinHistory' = <<>>
    /\ currentSpinId' = 0
    /\ last' = [op |-> "reset", pre |-> Pre]
    /\ proc' = Disturbed(proc)
    /\ UNCHANGED <<config, rngs, engines, held, auto>>

Next ==
    \/ Spin
    \/ \E p \in Procs : ResumeGen(p)
    \/ \E p \in Procs : ResumeAnim(p)
    \/ \E p \in Procs : ResumeTumble(p)
    \/ \E amount \in BetAmounts : SetBet(amount)
    \/ \E amount \in AddAmounts : AddBalance(amount)
    \/ Reset

Spec == Init /\ [][Next]_vars

(***************************************************************************)
(* The state machine on its own: constructed with any initial data and     *)
(* driven by processEvent.                                                 *)
(***************************************************************************)
InitSM ==
    /\ \E b \in 0..2, bet \in 1..2, tw \in 0..1, cc \in 0..1, fs \in 0..1,
          fr \in BOOLEAN, m \in 1..2 :
          stateData = defaultStateData(
              [balance |-> b, bet |-> bet, totalWin |-> tw, cascadeCount |-> cc,
               freeSpinsRemaining |-> fs, isInFreeSpins |-> fr, multiplier |-> m])
    /\ currentState = IDLE
    /\ stateHistory = <<>>
    /\ config = [initialBalance |-> stateData.balance, initialBet |-> stateData.bet]
    /\ grid = initializeGrid
    /\ spinHistory = <<>>
    /\ currentSpinId = 0
    /\ proc = [p \in Procs |-> FreeProc]
    /\ nCalls = 0
    /\ rngs = <<>>
    /\ engines = <<>>
    /\ held = <<>>
    /\ auto = <<>>
    /\ last = [op |-> "init"]

\* stateMachine.processEvent(event)
ProcessEvent(event) ==
    /\ Len(stateHistory) < MaxHistory
    /\ LET r == processEvent(SM, event)
       IN  /\ SetMachine(r.sm)
           /\ last' = [op |-> "processEvent", event |-> event, ret |-> r.ok,
                       notified |-> r.notified, pre |-> Pre]
    /\ UNCHANGED <<grid, spinHistory, currentSpinId, config, proc, nCalls, rngs, engines, held, auto>>

\* stateMachine.canSpin()
CanSpin ==
    /\ last.op # "canSpin"
    /\ last' = [op |-> "canSpin", ret |-> canSpin(SM), pre |-> Pre]
    /\ UNCHANGED <<currentState, stateData, stateHistory, grid, spinHistory,
                   currentSpinId, config, proc, nCalls, rngs, engines, held, auto>>

NextSM ==
    \/ \E event \in GameEvent : ProcessEvent(event)
    \/ CanSpin

SpecSM == InitSM /\ [][NextSM]_vars

(***************************************************************************)
(* The state machine's auto-spin query on any state data.                  *)
(***************************************************************************)
InitQuery ==
    /\ \E count \in -1..1, b \in 0..2, bet \in 1..2, lw \in 0..2, wt \in 0..2,
          lt \in 0..2, sw \in BOOLEAN, sl \in BOOLEAN :
          stateData = defaultStateData(
              [balance |-> b, bet |-> bet, lastWinAmount |-> lw,
               autoSpinCount |-> count, maxAutoSpins |-> 1,
               stopOnWin |-> sw, stopOnLoss |-> sl,
               winThreshold |-> wt, lossThreshold |-> lt])
    /\ currentState = IDLE
    /\ stateHistory = <<>>
    /\ config = [initialBalance |-> 2, initialBet |-> 1]
    /\ grid = initializeGrid
    /\ spinHistory = <<>>
    /\ currentSpinId = 0
    /\ proc = [p \in Procs |-> FreeProc]
    /\ nCalls = 0
    /\ rngs = <<>>
    /\ engines = <<>>
    /\ held = <<>>
    /\ auto = <<>>
    /\ last = [op |-> "init"]

\* stateMachine.shouldContinueAutoSpin()
ShouldContinueAutoSpin ==
    /\ last.op = "init"
    /\ last' = [op |-> "shouldContinueAutoSpin",
                ret |-> shouldContinueAutoSpin(SM), pre |-> Pre]
    /\ UNCHANGED <<currentState, stateData, stateHistory, grid, spinHistory,
                   currentSpinId, config, proc, nCalls, rngs, engines, held, auto>>

NextQuery == ShouldContinueAutoSpin

SpecQuery == InitQuery /\ [][NextQuery]_vars

(***************************************************************************)
(* Auto-spin.  auto[l] is the l-th processAutoSpin() invocation: `pc` its  *)
(* position (awaiting its spin, in the pause between spins, or done), `p`  *)
(* the spin() invocation it awaits, `stopped` whether stopAutoSpin() has   *)
(* been called since the last startAutoSpin() while it was running.        *)
(***************************************************************************)
AutoSettings ==
    {[count |-> 2, stopOnWin |-> FALSE, stopOnLoss |-> sl, winThreshold |-> 0,
      lossThreshold |-> 1] : sl \in BOOLEAN}

\* The draws the auto-spin specification considers: a grid of scatters
\* (no payout, no award) and rows of scatters around a row of one candy
\* (a payout and an award of free spins).
AutoPicks ==
    {picks \in EnginePicks :
        /\ picks[Pos(1, 1)] = "scatter"
        /\ picks[Pos(2, 1)] = "scatter"
        /\ picks[Pos(1, 2)] = picks[Pos(2, 2)]}

\* The spins started so far: those resolved and those in flight.
SpinsStarted == Len(spinHistory) + Cardinality({q \in Procs : InFlight(q)})

\* A loop whose awaited spin() has resolved runs before any timer or host
\* call does.
ContinuationPending ==
    \E l \in DOMAIN auto : auto[l].pc = "awaitSpin" /\ ~InFlight(auto[l].p)

InitAuto ==
    /\ config = [initialBalance |-> 2, initialBet |-> 1]
    /\ currentState = IDLE
    /\ stateData = defaultStateData([balance |-> config.initialBalance,
                                     bet |-> config.initialBet])
    /\ stateHistory = <<>>
    /\ grid = initializeGrid
    /\ spinHistory = <<>>
    /\ currentSpinId = 0
    /\ proc = [p \in Procs |-> FreeProc]
    /\ nCalls = 0
    /\ rngs = <<>>
    /\ engines = <<>>
    /\ held = <<>>
    /\ auto = <<>>
    /\ last = [op |-> "init"]

\* processAutoSpin of loop l from the head of its while loop to its next
\* await or to its end; sm0 is the machine at that point, loops the
\* invocations with l among them.
LoopHead(l, sm0, loops, op) ==
    LET decided == [op |-> op, l |-> l, pre |-> Pre, data |-> sm0.stateData,
                    stopped |-> loops[l].stopped,
                    continue |-> continueAutoSpin(sm0)]
    IN  IF ~continueAutoSpin(sm0)
        THEN /\ SetMachine(sm0)
             /\ auto' = [loops EXCEPT ![l].pc = "done"]
             /\ last' = decided @@ [called |-> FALSE, accepted |-> FALSE]
             /\ UNCHANGED <<grid, proc>>
        ELSE IF ~spinAccepted(sm0)
        THEN /\ SetMachine(sm0)
             /\ auto' = [loops EXCEPT ![l].pc = "done"]
             /\ last' = decided @@ [called |-> TRUE, accepted |-> FALSE]
             /\ proc' = Disturbed(proc)
             /\ UNCHANGED grid
        ELSE /\ \E q \in Procs : ~InFlight(q)
             /\ SpinsStarted < MaxStarted
             /\ \E picks \in AutoPicks :
                  LET r == processEvent(sm0, SPIN)
                      p == LowestFree
                  IN  /\ SetMachine(r.sm)
                      /\ grid' = generateNewGrid(picks)
                      /\ proc' = [Disturbed(proc) EXCEPT ![p] =
                             [pc |-> "gen",
                              loc |-> startLocals(r.sm),
                              call |-> Pre,
                              alone |-> \A q \in Procs : ~InFlight(q),
                              afterSpin |-> r.sm.stateData]]
                      /\ auto' = [loops EXCEPT ![l].pc = "awaitSpin", ![l].p = p,
                                                ![l].spins = @ + 1]
                      /\ last' = decided @@ [called |-> TRUE, accepted |-> TRUE,
                                             p |-> p]

\* engine.startAutoSpin(settings)
StartAutoSpin(settings) ==
    /\ ~ContinuationPending
    /\ nCalls < MaxAutoCalls
    /\ Len(auto) < MaxLoops
    /\ nCalls' = nCalls + 1
    /\ LoopHead(Len(auto) + 1, startAutoSpinData(SM, settings),
                Append([l \in DOMAIN auto |-> [auto[l] EXCEPT !.stopped = FALSE]],
                       [pc |-> "head", p |-> 0, stopped |-> FALSE, spins |-> 0]),
                "startAutoSpin")
    /\ UNCHANGED <<spinHistory, currentSpinId, config, rngs, engines, held>>

\* engine.stopAutoSpin()
StopAutoSpin ==
    /\ ~ContinuationPending
    /\ nCalls < MaxAutoCalls
    /\ nCalls' = nCalls + 1
    /\ SetMachine(stopAutoSpin(SM))
    /\ auto' = [l \in DOMAIN auto |->
                  IF auto[l].pc # "done" THEN [auto[l] EXCEPT !.stopped = TRUE]
                  ELSE auto[l]]
    /\ proc' = Disturbed(proc)
    /\ last' = [op |-> "stopAutoSpin", pre |-> Pre, procBefore |-> proc,
                running |-> {l \in DOMAIN auto : auto[l].pc # "done"}]
    /\ UNCHANGED <<grid, spinHistory, currentSpinId, config, rngs, engines, held>>

\* processAutoSpin of loop l resumed after `await this.spin()`: the spin
\* has resolved to a result.
AutoAfterSpin(l) ==
    /\ l \in DOMAIN auto
    /\ auto[l].pc = "awaitSpin"
    /\ ~InFlight(auto[l].p)
    /\ SetMachine(decrementAutoSpinCount(SM))
    /\ auto' = [auto EXCEPT ![l].pc = "pause"]
    /\ last' = [op |-> "autoAfterSpin", l |-> l, pre |-> Pre,
                stopped |-> auto[l].stopped,
                result |-> spinHistory[Len(spinHistory)]]
    /\ UNCHANGED <<grid, spinHistory, currentSpinId, config, proc, nCalls,
                   rngs, engines, held>>

\* processAutoSpin of loop l resumed after the pause between spins.
AutoAfterPause(l) ==
    /\ l \in DOMAIN auto
    /\ auto[l].pc = "pause"
    /\ ~ContinuationPending
    /\ ~MicrotaskPending
    /\ LoopHead(l, SM, auto, "autoAfterPause")
    /\ UNCHANGED <<spinHistory, currentSpinId, config, nCalls, rngs, engines,
                   held>>

\* engine.spin() called by the host while auto-spin may be running.
ManualSpin ==
    /\ ~ContinuationPending
    /\ SpinsStarted < MaxStarted
    /\ SpinWith(AutoPicks)

\* The awaits of a spin in flight, resumed when no loop's continuation is
\* pending.
AutoResumeGen(p) == ~ContinuationPending /\ ResumeGen(p)

AutoResumeAnim(p) == ~ContinuationPending /\ ResumeAnimWith(p, AutoPicks)

AutoResumeTumble(p) == ~ContinuationPending /\ ResumeTumble(p)

NextAuto ==
    \/ \E l \in 1..MaxLoops : AutoAfterSpin(l)
    \/ \E settings \in AutoSettings : StartAutoSpin(settings)
    \/ StopAutoSpin
    \/ \E l \in 1..MaxLoops : AutoAfterPause(l)
    \/ ManualSpin
    \/ \E p \in Procs : AutoResumeGen(p)
    \/ \E p \in Procs : AutoResumeAnim(p)
    \/ \E p \in Procs : AutoResumeTumble(p)

SpecAuto == InitAuto /\ [][NextAuto]_vars

(***************************************************************************)
(* A session: auto-spin together with the engine's other calls.            *)
(***************************************************************************)
InitSession ==
    /\ config \in {[initialBalance |-> b, initialBet |-> 1] : b \in InitialBalances}
    /\ currentState = IDLE
    /\ stateData = defaultStateData([balance |-> config.initialBalance,
                                     bet |-> config.initialBet])
    /\ stateHistory = <<>>
    /\ grid = initializeGrid
    /\ spinHistory = <<>>
    /\ currentSpinId = 0
    /\ proc = [p \in Procs |-> FreeProc]
    /\ nCalls = 0
    /\ rngs = <<>>
    /\ engines = <<>>
    /\ held = <<>>
    /\ auto = <<>>
    /\ last = [op |-> "init"]

\* engine.setBet(amount) called while auto-spin may be running.
SessionSetBet(amount) == ~ContinuationPending /\ SetBet(amount)

\* engine.addBalance(amount) called while auto-spin may be running.
SessionAddBalance(amount) == ~ContinuationPending /\ AddBalance(amount)

\* engine.reset() called while auto-spin may be running.
SessionReset == ~ContinuationPending /\ Reset

NextSession ==
    \/ NextAuto
    \/ \E amount \in BetAmounts : SessionSetBet(amount)
    \/ \E amount \in AddAmounts : SessionAddBalance(amount)
    \/ SessionReset

SpecSession == InitSession /\ [][NextSession]_vars

(***************************************************************************)
(* State data leaving the state machine.  held[h] is an object the host    *)
(* has got: `from` tells where from, `live` whether it is the very object  *)
(* the machine keeps in this.stateData, `data` its fields when it is not.  *)
(***************************************************************************)
WrittenBalances == {0, 7}

InitAlias ==
    /\ currentState = IDLE
    /\ stateData = defaultStateData([balance |-> 2, bet |-> 1])
    /\ stateHistory = <<>>
    /\ config = [initialBalance |-> 2, initialBet |-> 1]
    /\ grid = initializeGrid
    /\ spinHistory = <<>>
    /\ currentSpinId = 0
    /\ proc = [p \in Procs |-> FreeProc]
    /\ nCalls = 0
    /\ rngs = <<>>
    /\ engines = <<>>
    /\ held = <<>>
    /\ auto = <<>>
    /\ last = [op |-> "init"]

\* { ...this.stateData }
CopyOut(from) == [from |-> from, live |-> FALSE, data |-> stateData]

\* this.stateData = { ... }: the objects handed out so far are no longer
\* the machine's.
Detached ==
    [h \in DOMAIN held |->
        IF held[h].live THEN [held[h] EXCEPT !.live = FALSE, !.data = stateData]
        ELSE held[h]]

\* stateMachine.getStateData(), the result kept by the host.
GetStateData ==
    /\ nCalls < MaxAliasCalls
    /\ nCalls' = nCalls + 1
    /\ held' = Append(held, CopyOut("getStateData"))
    /\ last' = [op |-> "getStateData", pre |-> Pre]
    /\ UNCHANGED <<currentState, stateData, stateHistory, grid, spinHistory,
                   currentSpinId, config, proc, rngs, engines, auto>>

\* stateMachine.exportState(), the `data` of the result kept by the host.
ExportState ==
    /\ nCalls < MaxAliasCalls
    /\ nCalls' = nCalls + 1
    /\ held' = Append(held, CopyOut("exportState"))
    /\ last' = [op |-> "exportState", pre |-> Pre]
    /\ UNCHANGED <<currentState, stateData, stateHistory, grid, spinHistory,
                   currentSpinId, config, proc, rngs, engines, auto>>

\* stateMachine.processEvent(event) with a listener (the engine's
\* handleStateChange, which hands `data` on to onStateChange) that keeps
\* the data argument it is called with: notifyListeners passes
\* this.stateData itself.
ProcessEventListened(event) ==
    /\ nCalls < MaxAliasCalls
    /\ nCalls' = nCalls + 1
    /\ LET r == processEvent(SM, event)
       IN  /\ SetMachine(r.sm)
           /\ held' = IF r.ok
                      THEN Append(held, [from |-> "listener", live |-> TRUE,
                                         data |-> r.sm.stateData])
                      ELSE held
           /\ last' = [op |-> "processEvent", event |-> event, ret |-> r.ok,
                       notified |-> r.notified, pre |-> Pre]
    /\ UNCHANGED <<grid, spinHistory, currentSpinId, config, proc, rngs,
                   engines, auto>>

\* stateMachine.updateStateData({balance: balance + amount}), as
\* engine.addBalance(amount) does.
UpdateBalance(amount) ==
    /\ nCalls < MaxAliasCalls
    /\ nCalls' = nCalls + 1
    /\ SetMachine(updateStateData(SM, [balance |-> stateData.balance + amount]))
    /\ held' = Detached
    /\ last' = [op |-> "addBalance", amount |-> amount, pre |-> Pre]
    /\ UNCHANGED <<grid, spinHistory, currentSpinId, config, proc, rngs,
                   engines, auto>>

\* held[h].balance = value, written by the host.
WriteHeld(h, value) ==
    /\ nCalls < MaxAliasCalls
    /\ nCalls' = nCalls + 1
    /\ h \in DOMAIN held
    /\ IF held[h].live
       THEN /\ stateData' = [stateData EXCEPT !.balance = value]
            /\ held' = held
       ELSE /\ stateData' = stateData
            /\ held' = [held EXCEPT ![h].data.balance = value]
    /\ last' = [op |-> "write", h |-> h, from |-> held[h].from,
                value |-> value, pre |-> Pre]
    /\ UNCHANGED <<currentState, stateHistory, grid, spinHistory,
                   currentSpinId, config, proc, rngs, engines, auto>>

NextAlias ==
    \/ GetStateData
    \/ ExportState
    \/ \E event \in GameEvent : ProcessEventListened(event)
    \/ \E amount \in AddAmounts : UpdateBalance(amount)
    \/ \E h \in 1..MaxAliasCalls, value \in WrittenBalances : WriteHeld(h, value)

SpecAlias == InitAlias /\ [][NextAlias]_vars

(***************************************************************************)
(* The evaluator on its own: setGrid(any grid), then evaluateWin.          *)
(***************************************************************************)
\* The ids the configuration knows.
SymbolIds ==
    {symbols[i].id : i \in 1..Len(symbols)}
        \cup {specialSymbols[i].id : i \in 1..Len(specialSymbols)}

\* Every grid of the configured size: each cell empty ("") or a symbol.
Grids ==
    {[r \in 1..Rows |-> [c \in 1..Columns |->
         IF f[Pos(c, r)] = "" THEN Null ELSE NewSymbol(f[Pos(c, r)], Pos(c, r))]] :
        f \in [Positions -> SymbolIds \cup {""}]}

EvalBets == {1, 2}

InitEval ==
    /\ grid \in Grids
    /\ currentState = IDLE
    /\ stateData = defaultStateData([balance |-> 0, bet |-> 1])
    /\ stateHistory = <<>>
    /\ config = [initialBalance |-> 0, initialBet |-> 1]
    /\ spinHistory = <<>>
    /\ currentSpinId = 0
    /\ proc = [p \in Procs |-> FreeProc]
    /\ nCalls = 0
    /\ rngs = <<>>
    /\ engines = <<>>
    /\ held = <<>>
    /\ auto = <<>>
    /\ last = [op |-> "setGrid"]

\* evaluator.evaluateWin(bet, isFreeSpin) on the grid just set.  `draws` is
\* what the generator would return for one weighted draw per multiplier
\* symbol of the grid.
EvaluateWin(bet, isFreeSpin) ==
    /\ last.op = "setGrid"
    /\ \E draws \in MultiplierDraws(grid, TRUE) :
          LET applied(ev) ==
                  /\ grid' = ev.grid
                  /\ last' = [op |-> "evaluateWin", pre |-> Pre, bet |-> bet,
                              isFreeSpin |-> isFreeSpin, draws |-> draws,
                              drawn |-> Len(ev.result.multiplierSymbols),
                              result |-> ev.result]
          IN  applied(evaluateWin(grid, bet, isFreeSpin, draws))
    /\ UNCHANGED <<currentState, stateData, stateHistory, spinHistory,
                   currentSpinId, config, proc, nCalls, rngs, engines, held, auto>>

\* evaluator.applyGravity() on the grid just set.
ApplyGravity ==
    /\ last.op = "setGrid"
    /\ grid' = applyGravity(grid)
    /\ last' = [op |-> "applyGravity", pre |-> Pre]
    /\ UNCHANGED <<currentState, stateData, stateHistory, spinHistory,
                   currentSpinId, config, proc, nCalls, rngs, engines, held, auto>>

NextEval ==
    \/ \E bet \in EvalBets, isFreeSpin \in BOOLEAN : EvaluateWin(bet, isFreeSpin)
    \/ ApplyGravity

SpecEval == InitEval /\ [][NextEval]_vars

(***************************************************************************)
(* The generator on its own.  rngs[1] is constructed, drawn from and then  *)
(* re-seeded with setSeed(S); at that moment rngs[2] is constructed with   *)
(* new SeededRNG(S).  last.out[i] lists the numerators next() has returned *)
(* on instance i since then.                                               *)
(***************************************************************************)
\* seed.toString() as character codes: "", "1", "2", "42".
Seeds == {<<>>, <<49>>, <<50>>, <<52, 50>>}

InitRNG ==
    /\ \E seed \in Seeds :
          /\ rngs = <<SeededRNG(seed)>>
          /\ last = [op |-> "construct", seed0 |-> seed, before |-> 0,
                     out |-> << <<>> >>]
    /\ engines = <<>>
    /\ held = <<>>
    /\ auto = <<>>
    /\ currentState = IDLE
    /\ stateData = defaultStateData([balance |-> 0, bet |-> 1])
    /\ stateHistory = <<>>
    /\ config = [initialBalance |-> 0, initialBet |-> 1]
    /\ grid = initializeGrid
    /\ spinHistory = <<>>
    /\ currentSpinId = 0
    /\ proc = [p \in Procs |-> FreeProc]
    /\ nCalls = 0

\* rngs[i].next()
NextDraw(i) ==
    /\ i \in DOMAIN rngs
    /\ Len(last.out[i]) < MaxDraws
    /\ LET drawn(r) ==
               /\ rngs' = [rngs EXCEPT ![i] = r.st]
               /\ last' = [last EXCEPT !.op = "next",
                                       !.out[i] = Append(@, r.value),
                                       !.before = IF Len(rngs) = 1 THEN @ + 1 ELSE @]
       IN  drawn(next(rngs[i]))
    /\ UNCHANGED <<currentState, stateData, stateHistory, grid, spinHistory,
                   currentSpinId, config, proc, nCalls, engines, held, auto>>

\* rngs[1].setSeed(seed), and a fresh instance new SeededRNG(seed).
Reseed(seed) ==
    /\ Len(rngs) = 1
    /\ rngs' = <<setSeed(rngs[1], seed), SeededRNG(seed)>>
    /\ last' = [last EXCEPT !.op = "setSeed", !.out = << <<>>, <<>> >>] @@
                   [seed |-> seed]
    /\ UNCHANGED <<currentState, stateData, stateHistory, grid, spinHistory,
                   currentSpinId, config, proc, nCalls, engines, held, auto>>

NextRNG ==
    \/ \E i \in 1..2 : NextDraw(i)
    \/ \E seed \in Seeds : Reseed(seed)

SpecRNG == InitRNG /\ [][NextRNG]_vars

(***************************************************************************)
(* Two engines and the global generator they share.  engines[e] holds the  *)
(* seed engine e was constructed with, its state machine, its grid and     *)
(* what its spin() calls have resolved to.  `clean` tells that every spin  *)
(* of e so far ran while e was the engine constructed last and no other    *)
(* engine had spun since.                                                  *)
(***************************************************************************)
EngineSeeds == {<<49>>, <<50>>}

EngineBalance == 2

InitEngines ==
    /\ \E seed \in Seeds : rngs = <<SeededRNG(seed)>>
    /\ engines = <<>>
    /\ held = <<>>
    /\ auto = <<>>
    /\ currentState = IDLE
    /\ stateData = defaultStateData([balance |-> 0, bet |-> 1])
    /\ stateHistory = <<>>
    /\ config = [initialBalance |-> EngineBalance, initialBet |-> 1]
    /\ grid = initializeGrid
    /\ spinHistory = <<>>
    /\ currentSpinId = 0
    /\ proc = [p \in Procs |-> FreeProc]
    /\ nCalls = 0
    /\ last = [op |-> "init"]

\* new GameEngine({..., seed})
Construct(seed) ==
    /\ Len(engines) < 2
    /\ rngs' = <<setSeed(rngs[1], seed)>>
    /\ engines' = Append(engines,
           [seed |-> seed,
            sm |-> Machine(IDLE,
                       defaultStateData([balance |-> config.initialBalance,
                                         bet |-> config.initialBet]), <<>>),
            grid |-> initializeGrid,
            returned |-> <<>>,
            clean |-> TRUE])
    /\ last' = [op |-> "construct", seed |-> seed]
    /\ UNCHANGED <<currentState, stateData, stateHistory, grid, spinHistory,
                   currentSpinId, config, proc, nCalls, held, auto>>

\* await engines[e].spin()
SpinEngine(e) ==
    /\ e \in DOMAIN engines
    /\ Len(engines[e].returned) < MaxSpins
    /\ LET spun(r) ==
               /\ rngs' = <<r.st>>
               /\ engines' =
                     [f \in DOMAIN engines |->
                        IF f = e
                        THEN [engines[e] EXCEPT
                                 !.sm = r.sm, !.grid = r.grid,
                                 !.returned = Append(@, r.result),
                                 !.clean = @ /\ e = Len(engines)]
                        ELSE [engines[f] EXCEPT
                                 !.clean = @ /\ Len(engines[f].returned) = MaxSpins]]
               /\ last' = [op |-> "spin", e |-> e, result |-> r.result]
       IN  spun(spinToEnd(engines[e].sm, engines[e].grid, rngs[1],
                          generateSymbolPool(symbolRarityMultiplier)))
    /\ UNCHANGED <<currentState, stateData, stateHistory, grid, spinHistory,
                   currentSpinId, config, proc, nCalls, held, auto>>

NextEngines ==
    \/ \E seed \in EngineSeeds : Construct(seed)
    \/ \E e \in 1..2 : SpinEngine(e)

SpecEngines == InitEngines /\ [][NextEngines]_vars

(***************************************************************************)
(* The standalone simulation beside an engine spin.  Each step calls       *)
(* simulateRTP on the module's global generator (rngs[1]) and records, for *)
(* comparison, what spin() of a fresh engine in IDLE with the same bet     *)
(* resolves to when it starts from the same generator state.               *)
(***************************************************************************)
SimBets == {1, 2}

InitSim ==
    /\ \E seed \in Seeds : rngs = <<SeededRNG(seed)>>
    /\ engines = <<>>
    /\ held = <<>>
    /\ auto = <<>>
    /\ currentState = IDLE
    /\ stateData = defaultStateData([balance |-> 0, bet |-> 1])
    /\ stateHistory = <<>>
    /\ config = [initialBalance |-> EngineBalance, initialBet |-> 1]
    /\ grid = initializeGrid
    /\ spinHistory = <<>>
    /\ currentSpinId = 0
    /\ proc = [p \in Procs |-> FreeProc]
    /\ nCalls = 0
    /\ last = [op |-> "init"]

\* evaluator.simulateRTP(spins, bet)
SimulateRTP(spins, bet) ==
    /\ nCalls < MaxSimCalls
    /\ nCalls' = nCalls + 1
    /\ LET simulated(sim, eng) ==
               /\ rngs' = <<sim.st>>
               /\ grid' = sim.grid
               /\ last' = [op |-> "simulateRTP", spins |-> spins, bet |-> bet,
                           spinResults |-> sim.spinResults,
                           totalWins |-> sim.totalWins,
                           totalBet |-> sim.totalBet,
                           spin |-> eng.result, stAfterSpin |-> eng.st]
       IN  simulated(simulateRTP(rngs[1], spins, bet),
                     spinToEnd(Machine(IDLE,
                                   defaultStateData(
                                       [balance |-> config.initialBalance,
                                        bet |-> bet]), <<>>),
                               initializeGrid, rngs[1],
                               generateSymbolPool(symbolRarityMultiplier)))
    /\ UNCHANGED <<currentState, stateData, stateHistory, spinHistory,
                   currentSpinId, config, proc, engines, held, auto>>

NextSim == \E spins \in 1..MaxSimSpins, bet \in SimBets : SimulateRTP(spins, bet)

SpecSim == InitSim /\ [][NextSim]_vars

(***************************************************************************)
(* Properties.  `last` describes the step that led to the current state    *)
(* and last.pre the state it started in.                                   *)
(***************************************************************************)
SpinCalled == last.op = "spin"

EvaluatingOps == {"resumeGen", "resumeTumble"}

Resolved == last.op \in EvaluatingOps /\ last.resolved

GridFilled(g) == \A pos \in Positions : At(g, pos) # Null

FiredEvents == {last.fired[i].event : i \in 1..Len(last.fired)}

\* C1: spin() called in IDLE with balance < bet is a guard rejection: it
\* returns null, starts no invocation, generates no grid and leaves the
\* balance unchanged.
C1_InsufficientBalanceSpinRejected ==
    (SpinCalled /\ last.pre.currentState = IDLE
                /\ last.pre.stateData.balance < last.pre.stateData.bet)
    => /\ last.ret = "null"
       /\ grid = last.pre.grid
       /\ stateData.balance = last.pre.stateData.balance
       /\ {q \in Procs : InFlight(q)} = last.pre.inFlight

\* C2: spin() called while an earlier spin() is in flight is rejected: it
\* returns null, fires no event and does not touch the grid or the state.
C2_ConcurrentSpinRejected ==
    (SpinCalled /\ last.pre.inFlight # {})
    => /\ last.ret = "null"
       /\ last.fired = <<>>
       /\ grid = last.pre.grid
       /\ currentState = last.pre.currentState

\* C3: a spin resolved while isInFreeSpins is true adds its winnings to
\* totalWin and no step of it changes balance.
C3_FreeSpinWinsAccumulate ==
    /\ (Resolved /\ last.result.isFreeSpin)
       => /\ stateData.totalWin
                = last.pre.stateData.totalWin + last.result.totalWin
          /\ stateData.balance = last.pre.stateData.balance
    /\ (SpinCalled /\ last.ret = "pending" /\ last.pre.stateData.isInFreeSpins)
       => stateData.balance = last.pre.stateData.balance
    /\ (last.op \in {"resumeAnim", "resumeTumble"}
            /\ proc[last.p].pc # "free"
            /\ proc[last.p].loc.stateData.isInFreeSpins)
       => stateData.balance = last.pre.stateData.balance

\* C3 for the spins that no other engine call overlaps.
C3_UndisturbedFreeSpinWinsAccumulate ==
    (Resolved /\ last.result.isFreeSpin /\ last.alone)
       => /\ stateData.totalWin
                = last.pre.stateData.totalWin + last.result.totalWin
          /\ stateData.balance = last.pre.stateData.balance

\* C4: a spin started from IDLE outside free spins with balance >= bet and
\* not overlapped by any other engine call ends with balance = balance
\* before - bet + SpinResult.totalWin, and SpinResult.newBalance is the
\* balance held in the state data.
C4_PaidSpinBalance ==
    (Resolved /\ last.alone
              /\ last.call.currentState = IDLE
              /\ ~last.call.stateData.isInFreeSpins
              /\ last.call.stateData.balance >= last.call.stateData.bet)
    => /\ stateData.balance = last.call.stateData.balance
                                - last.call.stateData.bet + last.result.totalWin
       /\ last.result.newBalance = stateData.balance

C4_Witness ==
    /\ Resolved /\ last.alone
    /\ last.call.currentState = IDLE
    /\ ~last.call.stateData.isInFreeSpins
    /\ last.call.stateData.balance >= last.call.stateData.bet
    /\ last.result.totalWin > 0
    /\ Len(last.result.cascades) = maxCascades

\* C5: an evaluation of a filled grid with totalPayout 0 and no free spins
\* awarded fires NO_WIN, records no cascade and ends the loop.
C5_NoWinEndsLoop ==
    (last.op \in EvaluatingOps /\ last.evaluated # <<>>
        /\ GridFilled(last.pre.grid)
        /\ last.evaluated[1].totalPayout = 0
        /\ last.evaluated[1].freeSpinsAwarded = 0)
    => /\ NO_WIN \in FiredEvents
       /\ last.recorded = 0
       /\ last.resolved

\* C6: a cascade step removes only the cells of paying clusters; the cells
\* of clusters that pay 0 keep their symbols.
C6_OnlyWinningSymbolsRemoved ==
    last.op = "resumeAnim"
    => last.removed \subseteq PayingPositions(last.winResult.clusters)

\* C7: processEvent(e) with no rule from the current state whose guard
\* passes returns false and changes neither the state, the state data nor
\* the history, and notifies no listener.
C7_RejectedEventChangesNothing ==
    (last.op = "processEvent"
        /\ \A i \in 1..Len(initializeTransitions(last.pre.stateData)) :
              LET t == initializeTransitions(last.pre.stateData)[i]
              IN  ~(t.from = last.pre.currentState /\ t.event = last.event
                      /\ t.condition))
    => /\ last.ret = FALSE
       /\ currentState = last.pre.currentState
       /\ stateData = last.pre.stateData
       /\ stateHistory = last.pre.stateHistory
       /\ last.notified = <<>>

C7_Witness ==
    /\ last.op = "processEvent"
    /\ last.ret = FALSE
    /\ last.event = SPIN
    /\ last.pre.currentState = FREE_SPINS
    /\ last.pre.stateData.freeSpinsRemaining = 0
    /\ stateHistory # <<>>

\* C8: SPIN fired in IDLE with balance < bet leads to GAME_OVER and leaves
\* balance and every other field of the state data unchanged.
C8_InsufficientBalanceGameOver ==
    (last.op = "processEvent" /\ last.event = SPIN
        /\ last.pre.currentState = IDLE
        /\ last.pre.stateData.balance < last.pre.stateData.bet)
    => /\ last.ret = TRUE
       /\ currentState = GAME_OVER
       /\ stateData = last.pre.stateData

C8_Witness ==
    /\ last.op = "processEvent" /\ last.event = SPIN
    /\ last.pre.currentState = IDLE
    /\ last.pre.stateData.balance < last.pre.stateData.bet
    /\ last.pre.stateData.balance > 0
    /\ currentState = GAME_OVER

\* C9: SPIN fired in IDLE with balance >= bet leads to SPINNING, takes
\* exactly bet from balance, sets cascadeCount = 0, totalWin = 0 and
\* multiplier = 1 and leaves every other field unchanged.
C9_PaidSpinTransition ==
    (last.op = "processEvent" /\ last.event = SPIN
        /\ last.pre.currentState = IDLE
        /\ last.pre.stateData.balance >= last.pre.stateData.bet)
    => /\ last.ret = TRUE
       /\ currentState = SPINNING
       /\ stateData.balance = last.pre.stateData.balance - last.pre.stateData.bet
       /\ stateData.cascadeCount = 0
       /\ stateData.totalWin = 0
       /\ stateData.multiplier = 1
       /\ \A f \in DOMAIN stateData \ {"balance", "cascadeCount", "totalWin",
                                        "multiplier"} :
              stateData[f] = last.pre.stateData[f]

C9_Witness ==
    /\ last.op = "processEvent" /\ last.event = SPIN
    /\ last.pre.currentState = IDLE
    /\ last.pre.stateData.balance >= last.pre.stateData.bet
    /\ last.pre.stateData.cascadeCount > 0
    /\ last.pre.stateData.totalWin > 0
    /\ last.pre.stateData.multiplier > 1
    /\ last.pre.stateData.freeSpinsRemaining > 0
    /\ currentState = SPINNING

\* C10: after spin() resolves, freeSpinsRemaining has grown by
\* SpinResult.freeSpinsAwarded since the SPIN transition (stated for the
\* spins that no other engine call overlaps).
C10_FreeSpinsRemainingGrowsByAward ==
    (Resolved /\ last.alone)
    => stateData.freeSpinsRemaining
          = last.afterSpin.freeSpinsRemaining + last.result.freeSpinsAwarded


(***************************************************************************)
(* Properties of evaluateWin (SpecEval).                                   *)
(***************************************************************************)
EvaluatedWin == last.op = "evaluateWin"

Occupied(g) == {pos \in Positions : At(g, pos) # Null}

CellsOf(cluster) == {cluster.positions[j] : j \in 1..Len(cluster.positions)}

\* C13: the clusters evaluateWin returns partition the occupied cells:
\* every occupied position is listed exactly once over all clusters, no
\* empty position is listed, and the cluster sizes add up to the number
\* of occupied cells.
C13_ClustersPartitionOccupiedCells ==
    EvaluatedWin =>
        LET cl == last.result.clusters
            occupied == Occupied(last.pre.grid)
            listed == UNION {{<<i, j>> : j \in 1..Len(cl[i].positions)} :
                                i \in 1..Len(cl)}
            sized == UNION {{<<i, j>> : j \in 1..cl[i].size} : i \in 1..Len(cl)}
        IN  /\ \A pos \in occupied :
                  Cardinality({e \in listed : cl[e[1]].positions[e[2]] = pos}) = 1
            /\ \A i \in 1..Len(cl) : CellsOf(cl[i]) \subseteq occupied
            /\ Cardinality(sized) = Cardinality(occupied)

C13_Witness ==
    /\ EvaluatedWin
    /\ Occupied(last.pre.grid) # Positions
    /\ Len(last.result.clusters) >= 3
    /\ \E i \in 1..Len(last.result.clusters) : last.result.clusters[i].size >= 3

Adjacent(p, q) ==
    \/ (p.col = q.col /\ (p.row = q.row + 1 \/ q.row = p.row + 1))
    \/ (p.row = q.row /\ (p.col = q.col + 1 \/ q.col = p.col + 1))

Diagonal(p, q) ==
    /\ (p.col = q.col + 1 \/ q.col = p.col + 1)
    /\ (p.row = q.row + 1 \/ q.row = p.row + 1)

\* The cells of S joined to a cell of R by a path of adjacent cells of S.
RECURSIVE Reach(_, _)
Reach(R, S) ==
    LET R2 == R \cup {q \in S : \E p \in R : Adjacent(p, q)}
    IN  IF R2 = R THEN R ELSE Reach(R2, S)

SameCluster(p, q) ==
    \E i \in 1..Len(last.result.clusters) :
        {p, q} \subseteq CellsOf(last.result.clusters[i])

\* C14: every cluster evaluateWin returns is a maximal 4-directionally
\* connected set of cells with one symbol id: its cells all hold the
\* cluster's symbol id, any two of them are joined by a path of
\* orthogonally adjacent cells of the cluster, and two orthogonally
\* adjacent cells holding the same id are in the same cluster.
C14_ClustersAreMaximalConnected ==
    EvaluatedWin =>
        LET cl == last.result.clusters
            g == last.pre.grid
        IN  /\ \A i \in 1..Len(cl) : \A p \in CellsOf(cl[i]) :
                  /\ At(g, p) # Null
                  /\ At(g, p).id = cl[i].symbolId
                  /\ Reach({p}, CellsOf(cl[i])) = CellsOf(cl[i])
            /\ \A p \in Occupied(g), q \in Occupied(g) :
                  (Adjacent(p, q) /\ At(g, p).id = At(g, q).id)
                      => SameCluster(p, q)

C14_Witness ==
    /\ EvaluatedWin
    /\ \E i \in 1..Len(last.result.clusters) :
          /\ last.result.clusters[i].size >= 3
          /\ \E p \in CellsOf(last.result.clusters[i]) :
                \E q \in CellsOf(last.result.clusters[i]) :
                  p.col # q.col /\ p.row # q.row
    /\ \E p \in Occupied(last.pre.grid), q \in Occupied(last.pre.grid) :
          /\ Diagonal(p, q)
          /\ At(last.pre.grid, p).id = At(last.pre.grid, q).id
          /\ ~SameCluster(p, q)

\* The paytable entries of a symbol id.
PaytableEntries(id) == {i \in 1..Len(symbols) : symbols[i].id = id}

PaytableEntry(id) ==
    symbols[CHOOSE i \in PaytableEntries(id) : \A j \in PaytableEntries(id) : i <= j]

\* C15: a cluster pays payoutTable[size] * bet when its symbol has a
\* paytable entry, its size is at least the symbol's minCluster and the
\* table has a key for exactly that size; every other cluster pays 0 and
\* is still reported.
C15_ClusterPayoutExactSize ==
    EvaluatedWin =>
        LET cl == last.result.clusters
        IN  /\ \A i \in 1..Len(cl) :
                  cl[i].payout =
                      IF PaytableEntries(cl[i].symbolId) # {}
                         /\ cl[i].size >= PaytableEntry(cl[i].symbolId).minCluster
                         /\ cl[i].size \in
                               DOMAIN PaytableEntry(cl[i].symbolId).payoutTable
                      THEN PaytableEntry(cl[i].symbolId).payoutTable[cl[i].size]
                               * last.bet
                      ELSE 0
            /\ \A pos \in Occupied(last.pre.grid) :
                  \E i \in 1..Len(cl) : pos \in CellsOf(cl[i])

C15_Witness ==
    /\ EvaluatedWin
    /\ last.bet = 2
    /\ \E i \in 1..Len(last.result.clusters) :
          /\ last.result.clusters[i].symbolId = "candy_red"
          /\ last.result.clusters[i].size = 2
          /\ last.result.clusters[i].payout = 2
    /\ \E i \in 1..Len(last.result.clusters) :
          /\ last.result.clusters[i].symbolId = "candy_red"
          /\ last.result.clusters[i].size = 1
          /\ last.result.clusters[i].payout = 0
    /\ \E i \in 1..Len(last.result.clusters) :
          /\ last.result.clusters[i].symbolId = "scatter"
          /\ last.result.clusters[i].size = 2
          /\ last.result.clusters[i].payout = 0

\* The payouts of the first n clusters added up.
RECURSIVE PayoutOfFirst(_, _)
PayoutOfFirst(cl, n) == IF n = 0 THEN 0 ELSE cl[n].payout + PayoutOfFirst(cl, n - 1)

\* C16: every WinResult has totalPayout = multiplier * (the sum of the
\* payouts of all its clusters).
C16_TotalPayoutIsMultipliedSum ==
    EvaluatedWin =>
        last.result.totalPayout
            = last.result.multiplier
                * PayoutOfFirst(last.result.clusters, Len(last.result.clusters))

C16_Witness ==
    /\ EvaluatedWin
    /\ last.result.multiplier > 1
    /\ PayoutOfFirst(last.result.clusters, Len(last.result.clusters)) > 0
    /\ last.result.totalPayout
          > PayoutOfFirst(last.result.clusters, Len(last.result.clusters))

\* The first n values of a sequence multiplied.
RECURSIVE ProductOfFirst(_, _)
ProductOfFirst(seq, n) == IF n = 0 THEN 1 ELSE seq[n] * ProductOfFirst(seq, n - 1)

\* The cells of a grid holding the multiplier symbol.
MultiplierCells(g) == {pos \in Occupied(g) : At(g, pos).id = "multiplier"}

\* C17: in a free-spin evaluation every multiplier symbol of the grid is
\* resolved to its drawn value and WinResult.multiplier is the product of
\* these values when that is at most 1000 and exactly 1000 when it is
\* more; the multiplier is never above 1000.
C17_MultiplierProductCapped ==
    EvaluatedWin =>
        /\ last.result.multiplier <= 1000
        /\ last.isFreeSpin =>
              /\ {last.result.multiplierSymbols[i].position :
                      i \in 1..Len(last.result.multiplierSymbols)}
                    = MultiplierCells(last.pre.grid)
              /\ Len(last.result.multiplierSymbols)
                    = Cardinality(MultiplierCells(last.pre.grid))
              /\ last.result.multiplier
                    = IF ProductOfFirst(last.draws, Len(last.draws)) <= 1000
                      THEN ProductOfFirst(last.draws, Len(last.draws))
                      ELSE 1000

C17_Witness ==
    /\ EvaluatedWin
    /\ last.isFreeSpin
    /\ ProductOfFirst(last.draws, Len(last.draws)) = 2000
    /\ last.result.multiplier = 1000

\* C18: evaluateWin with isFreeSpin = false resolves no multiplier symbol
\* whatever the grid holds: the multiplier is 1, multiplierSymbols is
\* empty and no draw is taken from the generator.
C18_NoMultiplierOutsideFreeSpins ==
    (EvaluatedWin /\ ~last.isFreeSpin)
    => /\ last.result.multiplier = 1
       /\ last.result.multiplierSymbols = <<>>
       /\ last.drawn = 0

C18_Witness ==
    /\ EvaluatedWin
    /\ ~last.isFreeSpin
    /\ Cardinality(MultiplierCells(last.pre.grid)) >= 2
    /\ last.result.totalPayout > 0
    /\ last.drawn = 0

\* The cells of a grid holding the scatter symbol.
ScatterCells(g) == {pos \in Occupied(g) : At(g, pos).id = "scatter"}

\* The freeSpinsTable of the configured scatter symbol.
ScatterTable ==
    specialSymbols[CHOOSE i \in 1..Len(specialSymbols) :
                       specialSymbols[i].id = "scatter"].freeSpinsTable

C20_EvaluateWinKeepsPlacement ==
    EvaluatedWin =>
        \A pos \in Positions :
            LET before == At(last.pre.grid, pos)
                after == At(grid, pos)
            IN  /\ (before = Null) <=> (after = Null)
                /\ before # Null =>
                      /\ after.id = before.id
                      /\ \A f \in (DOMAIN before \cup DOMAIN after) \ {"clusterId"} :
                            f \in DOMAIN before /\ f \in DOMAIN after
                                /\ after[f] = before[f]

C20_Witness ==
    /\ EvaluatedWin
    /\ grid # last.pre.grid
    /\ Occupied(grid) # Positions
    /\ \E pos \in Occupied(grid) : At(grid, pos).clusterId = 2
    /\ \E pos \in Occupied(grid) :
          At(grid, pos).clusterId = 0 /\ At(grid, pos).id = "scatter"

(***************************************************************************)
(* Properties of the generator (SpecRNG).                                  *)
(***************************************************************************)
Reseeded == Len(rngs) = 2

\* C12: once an instance has been re-seeded with setSeed(S), after any
\* number of earlier draws, it and a fresh instance constructed with S
\* hold the same four state words after equally many draws, and their
\* next() calls return the same values.
C12_ReseedEqualsFresh ==
    Reseeded =>
        /\ \A k \in 1..Len(last.out[1]) :
              k <= Len(last.out[2]) => last.out[1][k] = last.out[2][k]
        /\ Len(last.out[1]) = Len(last.out[2]) => rngs[1] = rngs[2]

C12_Witness ==
    /\ Reseeded
    /\ last.before >= 2
    /\ last.seed0 # last.seed
    /\ Len(last.out[1]) = MaxDraws
    /\ Len(last.out[2]) = MaxDraws
    /\ last.out[1][1] # last.out[1][2]

(***************************************************************************)
(* Properties of two engines (SpecEngines).                                *)
(***************************************************************************)
\* What the spin() calls of engines e and f resolved to agrees as far as
\* both have been called.
SameResults(e, f) ==
    \A k \in 1..Len(engines[e].returned) :
        k <= Len(engines[f].returned)
            => engines[e].returned[k] = engines[f].returned[k]

\* C11: two engines constructed with the same seed and config and driven
\* by the same calls resolve their spins to the same SpinResults, in
\* whatever order the two engines are constructed and called.
C11_SameSeedSameResults ==
    \A e \in DOMAIN engines, f \in DOMAIN engines :
        engines[e].seed = engines[f].seed => SameResults(e, f)

\* C11 for engines run one after the other: each engine makes all its
\* spins before the next engine is constructed.
C11_OneAfterTheOtherSameResults ==
    \A e \in DOMAIN engines, f \in DOMAIN engines :
        (engines[e].seed = engines[f].seed /\ engines[e].clean /\ engines[f].clean)
            => SameResults(e, f)

(***************************************************************************)
(* Properties of applyGravity (SpecEval).                                  *)
(***************************************************************************)
RECURSIVE ColumnIdsFrom(_, _, _)
ColumnIdsFrom(g, col, row) ==
    IF row > Rows THEN <<>>
    ELSE IF g[row][col] # Null
         THEN <<g[row][col].id>> \o ColumnIdsFrom(g, col, row + 1)
         ELSE ColumnIdsFrom(g, col, row + 1)

\* The ids of the symbols of column col, from the top row down.
ColumnIds(g, col) == ColumnIdsFrom(g, col, 1)

\* C21: after applyGravity no empty cell lies below an occupied cell of
\* its column, each column holds the symbols it held before in the same
\* top-to-bottom order (so no column is affected by another), and every
\* symbol's position field is the cell it is in.
C21_GravityCompactsColumns ==
    last.op = "applyGravity" =>
        \A c \in 1..Columns :
            /\ \A r \in 1..(Rows - 1) :
                  grid[r][c] # Null => grid[r + 1][c] # Null
            /\ ColumnIds(grid, c) = ColumnIds(last.pre.grid, c)
            /\ \A r \in 1..Rows :
                  grid[r][c] # Null => grid[r][c].position = Pos(c, r)

C21_Witness ==
    /\ last.op = "applyGravity"
    /\ \E c \in 1..Columns :
          /\ last.pre.grid[1][c] # Null
          /\ last.pre.grid[2][c] # Null
          /\ last.pre.grid[Rows][c] = Null
          /\ last.pre.grid[1][c].id # last.pre.grid[2][c].id
          /\ grid[Rows][c] # Null
    /\ \E c \in 1..Columns : \A r \in 1..Rows : last.pre.grid[r][c] = grid[r][c]

(***************************************************************************)
(* Properties of setBet (Spec).                                            *)
(***************************************************************************)
\* C22: setBet(amount) returns true exactly when 0 < amount <= balance;
\* then the bet is the amount and nothing else of the state data or the
\* state changes; otherwise it returns false and nothing changes at all.
C22_SetBetWithinBalance ==
    last.op = "setBet" =>
        /\ last.ret = (0 < last.amount /\ last.amount <= last.pre.stateData.balance)
        /\ currentState = last.pre.currentState
        /\ stateHistory = last.pre.stateHistory
        /\ grid = last.pre.grid
        /\ IF last.ret
           THEN stateData = [last.pre.stateData EXCEPT !.bet = last.amount]
           ELSE stateData = last.pre.stateData

C22_Witness ==
    /\ last.op = "setBet"
    /\ last.ret
    /\ last.amount = last.pre.stateData.balance
    /\ last.pre.stateData.bet # last.amount
    /\ stateData.bet = last.amount

\* A rejected setBet for an amount above a positive balance.
C22_RejectedReached ==
    /\ last.op = "setBet"
    /\ ~last.ret
    /\ last.amount > last.pre.stateData.balance
    /\ last.pre.stateData.balance > 0

(***************************************************************************)
(* Properties of canSpin and of the RESET event (SpecSM).                  *)
(***************************************************************************)
\* C27: canSpin() returns true exactly in IDLE and in FREE_SPINS with
\* freeSpinsRemaining > 0, it changes nothing, and a SPIN event processed
\* in a state where canSpin() is true is accepted.
C27_CanSpinStates ==
    /\ last.op = "canSpin" =>
          /\ last.ret <=>
                \/ currentState = IDLE
                \/ (currentState = FREE_SPINS /\ stateData.freeSpinsRemaining > 0)
          /\ currentState = last.pre.currentState
          /\ stateData = last.pre.stateData
          /\ stateHistory = last.pre.stateHistory
    /\ (last.op = "processEvent" /\ last.event = SPIN) =>
          ((\/ last.pre.currentState = IDLE
            \/ (last.pre.currentState = FREE_SPINS
                    /\ last.pre.stateData.freeSpinsRemaining > 0))
              => last.ret)

C27_Witness ==
    /\ last.op = "canSpin"
    /\ ~last.ret
    /\ currentState = FREE_SPINS
    /\ stateData.freeSpinsRemaining = 0

\* A SPIN accepted from FREE_SPINS with free spins remaining.
C27_FreeSpinAccepted ==
    /\ last.op = "processEvent"
    /\ last.event = SPIN
    /\ last.ret
    /\ last.pre.currentState = FREE_SPINS

\* C29: RESET is accepted in every state and leads to IDLE; balance, bet
\* and totalWin stay as they were; from FREE_SPINS isInFreeSpins becomes
\* false and freeSpinsRemaining 0.
C29_ResetLeadsToIdle ==
    (last.op = "processEvent" /\ last.event = RESET) =>
        /\ last.ret
        /\ currentState = IDLE
        /\ stateData.balance = last.pre.stateData.balance
        /\ stateData.bet = last.pre.stateData.bet
        /\ stateData.totalWin = last.pre.stateData.totalWin
        /\ last.pre.currentState = FREE_SPINS =>
              (~stateData.isInFreeSpins /\ stateData.freeSpinsRemaining = 0)

C29_Witness ==
    /\ last.op = "processEvent"
    /\ last.event = RESET
    /\ last.pre.currentState = FREE_SPINS
    /\ last.pre.stateData.isInFreeSpins
    /\ last.pre.stateData.freeSpinsRemaining > 0
    /\ currentState = IDLE

\* The states RESET has been processed in.
C29_ResetFrom(state) ==
    /\ last.op = "processEvent"
    /\ last.event = RESET
    /\ last.pre.currentState = state

(***************************************************************************)
(* Properties of the generator's state words (SpecRNG).                    *)
(***************************************************************************)
\* The words getState() returns for instance i.
getState(i) == <<rngs[i].a, rngs[i].b, rngs[i].c, rngs[i].d>>

\* A word read as the number the program holds is in [0, 2^32).
IsUint32(w) ==
    /\ ~w.neg
    /\ w.hi \in 0..(Half - 1)
    /\ w.lo \in 0..(Half - 1)

\* C30: the four state words are unsigned 32-bit integers in every
\* reachable state: after construction, after setSeed and after any
\* number of next() draws.
C30_StateWordsUnsigned ==
    \A i \in DOMAIN rngs : \A k \in 1..4 : IsUint32(getState(i)[k])

\* C30 right after construction and right after setSeed.
C30_SeededWordsUnsigned ==
    last.op \in {"construct", "setSeed"} =>
        \A i \in DOMAIN rngs : \A k \in 1..4 : IsUint32(getState(i)[k])

(***************************************************************************)
(* Properties of shouldContinueAutoSpin (SpecQuery).                       *)
(***************************************************************************)
\* C26: shouldContinueAutoSpin() returns false exactly when
\* autoSpinCount <= 0, or balance < bet, or stopOnWin is set and
\* lastWinAmount >= winThreshold, or stopOnLoss is set and
\* balance <= lossThreshold; it returns true otherwise and changes nothing.
C26_ShouldContinueAutoSpin ==
    last.op = "shouldContinueAutoSpin" =>
        /\ ~last.ret <=>
              \/ stateData.autoSpinCount <= 0
              \/ stateData.balance < stateData.bet
              \/ (stateData.stopOnWin
                    /\ stateData.lastWinAmount >= stateData.winThreshold)
              \/ (stateData.stopOnLoss
                    /\ stateData.balance <= stateData.lossThreshold)
        /\ stateData = last.pre.stateData
        /\ currentState = last.pre.currentState
        /\ stateHistory = last.pre.stateHistory

C26_Witness ==
    /\ last.op = "shouldContinueAutoSpin"
    /\ ~last.ret
    /\ stateData.autoSpinCount > 0
    /\ stateData.balance >= stateData.bet
    /\ ~stateData.stopOnWin
    /\ stateData.stopOnLoss
    /\ stateData.balance = stateData.lossThreshold

\* A query answered true with both stop conditions armed.
C26_ContinuesReached ==
    /\ last.op = "shouldContinueAutoSpin"
    /\ last.ret
    /\ stateData.stopOnWin
    /\ stateData.stopOnLoss

(***************************************************************************)
(* Properties of the objects handed out (SpecAlias).                       *)
(***************************************************************************)
\* C28: a write to an object obtained from getStateData(), from
\* exportState() or as the data argument of a state-change listener
\* leaves the state machine's own state data as it was.
C28_StateDataLeavesAsCopies ==
    last.op = "write" => stateData = last.pre.stateData

\* C28 for the objects getStateData() and exportState() return.
C28_ReturnedObjectsAreCopies ==
    (last.op = "write" /\ last.from \in {"getStateData", "exportState"}) =>
        stateData = last.pre.stateData

\* C28 for a listener's data argument once updateStateData has replaced
\* the machine's object.
C28_ReplacedObjectIsDetached ==
    (last.op = "write" /\ ~held[last.h].live) => stateData = last.pre.stateData

(***************************************************************************)
(* Properties of auto-spin (SpecAuto).                                     *)
(***************************************************************************)
\* A step of processAutoSpin at the head of its while loop.
AtDecision == last.op \in {"startAutoSpin", "autoAfterPause"}

\* C23: with stopOnLoss set and the balance at or below lossThreshold
\* where the auto-spin loop decides whether to continue, the loop calls
\* spin() no more and ends, whatever autoSpinCount remains; the spins in
\* flight are the ones there were.
C23_StopOnLossHaltsLoop ==
    (/\ AtDecision
     /\ last.data.stopOnLoss
     /\ last.data.balance <= last.data.lossThreshold) =>
        /\ ~last.called
        /\ ~last.accepted
        /\ auto[last.l].pc = "done"
        /\ {q \in Procs : InFlight(q)} = last.pre.inFlight

\* The decision after a losing spin where the loss threshold is the only
\* reason to stop: spins remain to be made and the balance covers the bet.
C23_Witness ==
    /\ last.op = "autoAfterPause"
    /\ last.data.stopOnLoss
    /\ last.data.balance <= last.data.lossThreshold
    /\ last.data.autoSpinCount > 0
    /\ last.data.balance >= last.data.bet
    /\ ~last.data.stopOnWin
    /\ auto[last.l].spins = 1
    /\ auto[last.l].pc = "done"

\* C24: once stopAutoSpin() has been called while an auto-spin loop runs,
\* with no startAutoSpin() since, the loop calls spin() no more and ends
\* at its next decision; the call itself leaves every spin in flight at
\* its position with its locals and the grid as they were, and the spin
\* the loop was awaiting resolves to a SpinResult of a whole cascade loop.
C24_StopTakesEffectBetweenSpins ==
    /\ (AtDecision /\ last.stopped) =>
          /\ ~last.called
          /\ ~last.accepted
          /\ auto[last.l].pc = "done"
          /\ {q \in Procs : InFlight(q)} = last.pre.inFlight
    /\ last.op = "stopAutoSpin" =>
          /\ grid = last.pre.grid
          /\ \A q \in Procs :
                /\ proc[q].pc = last.procBefore[q].pc
                /\ InFlight(q) => proc[q].loc = last.procBefore[q].loc
    /\ (last.op = "autoAfterSpin" /\ last.stopped) =>
          Len(last.result.cascades) = maxCascades

\* A loop ended by a stopAutoSpin() that came while its first spin was in
\* flight: the count set to 0 by the call is -1 after the spin.
C24_Witness ==
    /\ last.op = "autoAfterPause"
    /\ last.stopped
    /\ auto[last.l].spins = 1
    /\ last.data.autoSpinCount = -1
    /\ last.data.balance >= last.data.bet
    /\ ~last.data.stopOnLoss
    /\ auto[last.l].pc = "done"

\* stopAutoSpin() called in the pause between two spins of a loop.
C24_StoppedInPause ==
    /\ last.op = "stopAutoSpin"
    /\ last.pre.stateData.autoSpinCount > 0
    /\ \E l \in last.running : auto[l].pc = "pause"

\* C25: a spin started by an auto-spin loop starts when no spin is in
\* flight, whatever startAutoSpin(), stopAutoSpin() and spin() calls the
\* host has made.
C25_AutoSpinStartsWhenNoneInFlight ==
    (AtDecision /\ last.accepted) => last.pre.inFlight = {}

\* C25 for a loop and its own spins: a loop that starts a spin is not
\* awaiting one.
C25_LoopAwaitsItsOwnSpin ==
    (AtDecision /\ last.accepted) =>
        \A q \in last.pre.inFlight :
            \A l \in DOMAIN auto :
                (auto[l].pc = "awaitSpin" /\ auto[l].p = q) => l # last.l

\* C25 while the machine is not in its free-spins state.
C25_SerializedOutsideFreeSpins ==
    (AtDecision /\ last.accepted /\ last.pre.currentState # FREE_SPINS) =>
        last.pre.inFlight = {}

\* A second startAutoSpin() whose spin is accepted while the first loop's
\* spin is in flight.
C25_SecondLoopOverlaps ==
    /\ last.op = "startAutoSpin"
    /\ last.accepted
    /\ last.l = 2
    /\ last.pre.inFlight # {}

(***************************************************************************)
(* Properties of the state a spin leaves the engine in (Spec).             *)
(***************************************************************************)
\* A step in which a spin() invocation resolves with its SpinResult.
SpinResolved == last.op \in {"resumeGen", "resumeTumble"} /\ last.resolved

\* C32: whenever spin() resolves with a SpinResult the state machine is in
\* IDLE or in FREE_SPINS.
C32_ResolvedSpinLeavesIdleOrFreeSpins ==
    SpinResolved => currentState \in {IDLE, FREE_SPINS}

\* A spin that no other call overlapped, started from IDLE with the bet
\* covered, has resolved after maxCascades cascades and the machine is
\* left in EVALUATING: canSpin() is false.
C32_LeftInEvaluating ==
    /\ SpinResolved
    /\ last.alone
    /\ last.call.currentState = IDLE
    /\ last.call.stateData.balance >= last.call.stateData.bet
    /\ Len(last.result.cascades) = maxCascades
    /\ currentState = EVALUATING
    /\ ~canSpin(SM)

\* A step of a spin() invocation that no other engine call overlaps.
UndisturbedSpinStep ==
    \/ last.op = "spin" /\ last.pre.inFlight = {}
    \/ last.op \in {"resumeGen", "resumeAnim", "resumeTumble"} /\ last.alone

\* C33: in a spin() that no other engine call overlaps, every event the
\* engine fires is accepted by processEvent.
C33_EngineEventsAccepted ==
    UndisturbedSpinStep => \A i \in DOMAIN last.fired : last.fired[i].ok

\* A spin started from IDLE with the bet covered, alone, whose cascade
\* awarded free spins: TUMBLE_COMPLETE is fired in FREE_SPINS and rejected.
C33_TumbleCompleteRejected ==
    /\ last.op = "resumeTumble"
    /\ last.alone
    /\ last.call.currentState = IDLE
    /\ last.call.stateData.balance >= last.call.stateData.bet
    /\ last.pre.currentState = FREE_SPINS
    /\ last.fired[1] = [event |-> TUMBLE_COMPLETE, ok |-> FALSE]

\* C33 for the spins started with a SPIN transition to SPINNING in which
\* no cascade awards free spins.
C33_AcceptedWithoutAward ==
    (/\ last.op \in {"resumeGen", "resumeAnim", "resumeTumble"}
     /\ last.alone
     /\ last.call.currentState = IDLE
     /\ last.call.stateData.balance >= last.call.stateData.bet
     /\ last.pre.stateData.freeSpinsRemaining
            = last.call.stateData.freeSpinsRemaining
     /\ stateData.freeSpinsRemaining = last.call.stateData.freeSpinsRemaining) =>
        \A i \in DOMAIN last.fired : last.fired[i].ok

(***************************************************************************)
(* Properties of a free-spin session (Spec).                               *)
(***************************************************************************)
\* No spin is in flight: the player's next move is a call.
Quiescent == \A q \in Procs : ~InFlight(q)

\* C34: a free-spin session comes to its end while the player calls
\* spin() whenever canSpin() holds: the session is not left open where no
\* spin is in flight and canSpin() is false, for there the player has no
\* spin left to call that could end it.
C34_FreeSpinSessionEnds ==
    ~(stateData.isInFreeSpins /\ Quiescent /\ ~canSpin(SM))

\* C34, what the engine does: once isInFreeSpins is set only reset()
\* clears it.
C34_OnlyResetEndsSession ==
    [][(stateData.isInFreeSpins /\ ~stateData'.isInFreeSpins)
          => last'.op = "reset"]_vars

\* A free spin called in FREE_SPINS, overlapped by no other call, has
\* resolved: the session is open, free spins remain and canSpin() is false.
C34_SessionLeftOpen ==
    /\ SpinResolved
    /\ last.alone
    /\ last.call.currentState = FREE_SPINS
    /\ last.result.isFreeSpin
    /\ Quiescent
    /\ stateData.isInFreeSpins
    /\ stateData.freeSpinsRemaining > 0
    /\ ~canSpin(SM)

\* What FREE_SPINS_COMPLETE adds to balance when it is fired in the
\* present state (stateMachine.ts 185-195).
completionCredit ==
    processEvent(SM, FREE_SPINS_COMPLETE).sm.stateData.balance
        - stateData.balance

\* C35: a payout evaluateAndCascade has added to balance is not part of
\* the totalWin FREE_SPINS_COMPLETE adds: where a spin outside free spins
\* has resolved, its winnings credited, and left the machine in FREE_SPINS,
\* FREE_SPINS_COMPLETE adds nothing.
C35_PayoutCreditedOnce ==
    (/\ SpinResolved
     /\ last.alone
     /\ ~last.result.isFreeSpin
     /\ stateData.balance = last.afterSpin.balance + last.result.totalWin
     /\ currentState = FREE_SPINS) =>
        completionCredit = 0

\* The spin that triggers free spins has paid: its totalWin is in balance
\* and in the totalWin that FREE_SPINS_COMPLETE would add again.
C35_TriggerSpinCountedTwice ==
    /\ SpinResolved
    /\ last.alone
    /\ last.call.currentState = IDLE
    /\ ~last.result.isFreeSpin
    /\ last.result.totalWin > 0
    /\ last.result.freeSpinsAwarded > 0
    /\ stateData.balance = last.afterSpin.balance + last.result.totalWin
    /\ currentState = FREE_SPINS
    /\ completionCredit = last.result.totalWin

\* C35 for the winnings of free spins: a free spin that no other call
\* overlaps adds its totalWin to the state data's totalWin and leaves
\* balance alone.
C35_FreeSpinWinsNotCredited ==
    (SpinResolved /\ last.alone /\ last.result.isFreeSpin) =>
        /\ stateData.balance = last.afterSpin.balance
        /\ stateData.totalWin = last.afterSpin.totalWin + last.result.totalWin

(***************************************************************************)
(* Properties of calls made while a spin is in flight (Spec).              *)
(***************************************************************************)
\* A step that resolves the one spin in flight right after the call the
\* previous step made at its last suspension point.
ResolvesAfterCall(op) ==
    /\ last.op = op
    /\ last.pre.inFlight # {}
    /\ last'.op = "resumeTumble"
    /\ last'.resolved
    /\ last.pre.inFlight = {last'.p}

\* C36: addBalance(a) called at a suspension point of a spin in flight is
\* not lost: when the spin resolves, the balance is the one the spin
\* gives without the call (the balance it started its cascades with plus
\* its totalWin when it is no free spin) plus a.
C36_AddBalanceKept ==
    [][ResolvesAfterCall("addBalance") =>
          stateData'.balance
              = proc[last'.p].loc.stateData.balance
                + (IF last'.result.isFreeSpin THEN 0 ELSE last'.result.totalWin)
                + last.amount]_vars

\* C36 at the call itself: addBalance(a) returns with the balance grown
\* by a, a spin in flight or not.
C36_AddBalanceImmediate ==
    last.op = "addBalance" =>
        stateData.balance = last.pre.stateData.balance + last.amount

\* A spin started from IDLE with the bet covered has resolved; before its
\* last step the balance stood one above the balance the spin started
\* with, the machine in TUMBLING (addBalance(1) was called during the
\* cascades), and the balance written is the one without the amount.
C36_AddedAmountOverwritten ==
    /\ SpinResolved
    /\ ~last.result.isFreeSpin
    /\ last.call.currentState = IDLE
    /\ last.call.stateData.balance >= last.call.stateData.bet
    /\ last.pre.currentState = TUMBLING
    /\ last.pre.stateData.balance = last.afterSpin.balance + 1
    /\ stateData.balance = last.afterSpin.balance + last.result.totalWin

\* C37: after reset() called while a spin is in flight, once the spin has
\* resolved the engine is in its initial condition: state IDLE, balance
\* and bet as configured, totalWin and lastWinAmount 0, no spin history.
C37_ResetSurvivesSpinInFlight ==
    [][ResolvesAfterCall("reset") =>
          /\ currentState' = IDLE
          /\ stateData'.balance = config.initialBalance
          /\ stateData'.bet = config.initialBet
          /\ stateData'.totalWin = 0
          /\ stateData'.lastWinAmount = 0
          /\ spinHistory' = <<>>]_vars

\* C37 at the call itself: reset() returns with the engine in its initial
\* condition, a spin in flight or not.
C37_ResetImmediate ==
    last.op = "reset" =>
        /\ currentState = IDLE
        /\ stateData.balance = config.initialBalance
        /\ stateData.bet = config.initialBet
        /\ stateData.totalWin = 0
        /\ stateData.lastWinAmount = 0
        /\ spinHistory = <<>>

\* A spin started from IDLE with balance 2 and bet 1 resolves after a
\* reset() made during its cascades: the SpinResult is the only entry of
\* the history and the balance is the spin's own.
C37_SpinWritesOverReset ==
    /\ SpinResolved
    /\ last.call.currentState = IDLE
    /\ last.call.stateData.balance = 2
    /\ last.pre.currentState = IDLE
    /\ last.pre.stateData.balance = config.initialBalance
    /\ Len(spinHistory) = 1
    /\ currentSpinId = 1
    /\ stateData.balance = last.afterSpin.balance + last.result.totalWin
    /\ stateData.balance # config.initialBalance

(***************************************************************************)
(* Properties of a session (SpecSession).                                  *)
(***************************************************************************)
\* C38: with initialBalance >= 0, initialBet > 0, payouts >= 0 and amounts
\* >= 0 given to addBalance, the balance is >= 0 in every state reached by
\* spin, setBet, addBalance, startAutoSpin, stopAutoSpin and reset calls,
\* however they interleave with the spins in flight.
C38_BalanceNonNegative == stateData.balance >= 0

\* A paid spin started by an auto-spin loop after setBet raised the bet to
\* the whole balance has resolved without a win: the balance is 0.
C38_Witness ==
    /\ SpinResolved
    /\ Len(auto) >= 1
    /\ ~last.result.isFreeSpin
    /\ last.call.currentState = IDLE
    /\ last.call.stateData.bet = 2
    /\ last.call.stateData.balance = 2
    /\ last.result.totalWin = 0
    /\ stateData.balance = 0

\* The balance never falls below 0 among the snapshots the spins in
\* flight will write back either.
C38_SnapshotsNonNegative ==
    \A q \in Procs : InFlight(q) => proc[q].loc.stateData.balance >= 0

(***************************************************************************)
(* Properties of a whole auto-spin run (SpecAuto).                         *)
(***************************************************************************)
\* The one auto-spin loop of a session with no other call has ended, no
\* stop condition set and the balance covering the bet.
LoneLoopEnded ==
    /\ AtDecision
    /\ nCalls = 1
    /\ Len(auto) = 1
    /\ auto[1].pc = "done"
    /\ last.pre.currentState # GAME_OVER
    /\ ~stateData.stopOnWin
    /\ ~stateData.stopOnLoss
    /\ stateData.balance >= stateData.bet

\* C39: startAutoSpin({count: N}) from IDLE, with no stop condition, no
\* stopAutoSpin() and the balance covering the bet, performs N spins and
\* ends with autoSpinCount = 0.
C39_AutoSpinPerformsCount ==
    LoneLoopEnded =>
        /\ auto[1].spins = stateData.maxAutoSpins
        /\ stateData.autoSpinCount = 0

\* C39, the count: after each spin of a loop that resolves, autoSpinCount
\* is one less.
C39_CountDecrementedPerSpin ==
    last.op = "autoAfterSpin" =>
        stateData.autoSpinCount = last.pre.stateData.autoSpinCount - 1

\* The loop has ended after one spin of two: the spin left the machine in
\* EVALUATING and the loop's second spin() was rejected.
C39_EndedAfterOneSpin ==
    /\ LoneLoopEnded
    /\ last.op = "autoAfterPause"
    /\ last.called
    /\ ~last.accepted
    /\ last.pre.currentState = EVALUATING
    /\ auto[1].spins = 1
    /\ stateData.maxAutoSpins = 2
    /\ stateData.autoSpinCount = 1

\* C39 for the loops whose every spin leaves the machine where canSpin()
\* holds: a lone loop that ended without a rejected spin() has made its N
\* spins and autoSpinCount is 0.
C39_PerformsCountUnlessRejected ==
    (LoneLoopEnded /\ ~last.called) =>
        /\ auto[1].spins = stateData.maxAutoSpins
        /\ stateData.autoSpinCount = 0

\* A lone loop of count 2 has made both spins (the first left the machine
\* in FREE_SPINS) and ended at its third decision.
C39_TwoSpinsMade ==
    /\ LoneLoopEnded
    /\ ~last.called
    /\ auto[1].spins = 2
    /\ stateData.maxAutoSpins = 2
    /\ stateData.autoSpinCount = 0

(***************************************************************************)
(* Properties of the standalone simulation (SpecSim).                      *)
(***************************************************************************)
\* C40: from the same generator state, with the same bet and paytable and
\* rarity multipliers of 1, the first simulated spin of simulateRTP has the
\* WinResults of the cascades of an engine spin() outside free spins, in
\* order, and their payouts sum to the spin's totalWin; a simulation of one
\* spin has that totalWin as its total and leaves the generator in the
\* state the engine spin leaves it in.
C40_SimulatedSpinIsEngineSpin ==
    last.op = "simulateRTP" =>
        /\ last.spin # Null
        /\ last.spinResults[1] = last.spin.cascades
        /\ SumSeq([i \in 1..Len(last.spinResults[1]) |->
                      last.spinResults[1][i].totalPayout]) = last.spin.totalWin
        /\ last.spins = 1 =>
              /\ last.totalWins = last.spin.totalWin
              /\ last.totalBet = last.bet
              /\ rngs[1] = last.stAfterSpin

\* A simulation of one spin whose engine spin ran maxCascades cascades and
\* paid.
C40_Witness ==
    /\ last.op = "simulateRTP"
    /\ last.spins = 1
    /\ last.spin # Null
    /\ ~last.spin.isFreeSpin
    /\ Len(last.spin.cascades) = maxCascades
    /\ last.spin.totalWin > 0
    /\ last.totalWins = last.spin.totalWin

=============================================================================
